---- MODULE Spec2Model ----
(***************************************************************************)
(* CognitiveStateEngine (src-tauri/src/analysis/engine.rs): a three-state  *)
(* forward-algorithm filter over an EWMA-smoothed stuck score, with a      *)
(* backspace-streak override, a pause gate and a forced reset to Flow.     *)
(*                                                                         *)
(* Numbers.  The engine computes in f64.  Here every probability and score *)
(* is a fixed-point integer counting units of 1/Scale, and every f64       *)
(* operation that rounds (the normalising division, the EWMA blend, phi)   *)
(* rounds to the nearest unit.  The transition and emission tables are     *)
(* kept exactly, in hundredths, so the unnormalised posterior is exact.    *)
(***************************************************************************)
EXTENDS Integers, Sequences, FiniteSets, TLC

VARIABLES
    current_state_probs,  \* engine.rs:19  belief <<Flow, Incubation, Stuck>>
    is_paused,            \* engine.rs:20
    backspace_streak,     \* engine.rs:21
    s_stuck_ewma,         \* engine.rs:25
    last,                 \* the call that returned last, with update's locals
    at_baseline,          \* no non-skipped update since the last forced reset
    delivered_run,        \* trailing backspace codes over ALL update calls
    applied_run,          \* trailing backspace codes over non-skipped updates
    frozen,               \* <<belief, EWMA, streak>> as of set_paused(true)
    lock,                 \* per mutex: the thread holding it, or "free"
    poisoned,             \* the mutexes a panicking holder has poisoned
    pc,                   \* per thread: where it is in its call
    wl,                   \* locals of the update call in progress
    kl,                   \* Some(argument) of the last call of `ime`, or None
    rl,                   \* get_current_state: components read so far
    ret,                  \* what the reader's last call returned
    seen,                 \* beliefs stored while the reader's call runs
    calls,                \* per thread: calls started
    ref,                  \* the engine state of the calls run one by one
    state_probs,          \* hmm.rs:39  legacy belief <<Flow, Incubation, Stuck>>
    BACKSPACE_TIMES,      \* keyboard.rs:23  backspace press times, oldest first
    LAST_KEY_TIME,        \* keyboard.rs:20
    LAST_BACKSPACE_PRESS, \* keyboard.rs:26
    clock,                \* Instant::now(), in milliseconds
    presses,              \* every backspace press time so far
    kb,                   \* what keyboard_proc computed at the last key
    IME_ACTIVE,           \* hook.rs:30
    candidate_visible,    \* a visible IME candidate window exists
    uia_found,            \* the focused element is an IME element
    composing,            \* an IME composition is in progress
    ime,                  \* the last IME call or event, and the stores made
    LAST_STATE,           \* keyboard.rs:35
    HWND_OVERLAY_STATIC,  \* main.rs:22  0, or the overlay window's handle
    overlay,              \* <<alpha, color>> last applied to the overlay window
    ov,                   \* the states handed to update_overlay_from_state
    kpoisoned,            \* the poisoned mutexes of keyboard.rs
    EVENT_SENDER,         \* hook.rs:54  the mutex and the sender in it
    channel,              \* the events in the channel behind the sender
    hc                    \* what the last hook_callback invocation did

\* Bookkeeping of the call-at-a-time specification.
svars == <<last, at_baseline, delivered_run, applied_run, frozen>>

\* State of the threaded specification.
tvars == <<lock, poisoned, pc, wl, kl, rl, ret, seen, calls, ref>>

\* The engine's fields.
evars == <<current_state_probs, is_paused, backspace_streak, s_stuck_ewma>>

\* State of the legacy keyboard hook: its statics, its HMM, and the clock.
lvars == <<state_probs, BACKSPACE_TIMES, LAST_KEY_TIME, LAST_BACKSPACE_PRESS,
           clock, presses, kb>>

\* State of the IME detection.
ivars == <<IME_ACTIVE, candidate_visible, uia_found, composing, ime>>

\* The overlay of the legacy program, and the poisoned mutexes of its hook.
ovars == <<LAST_STATE, HWND_OVERLAY_STATIC, overlay, ov, kpoisoned>>

\* State of the low-level keyboard hook that feeds the engine.
hvars == <<EVENT_SENDER, channel, hc>>

\* Everything outside the engine.
xvars == <<lvars, ivars, ovars, hvars>>

vars == <<current_state_probs, is_paused, backspace_streak, s_stuck_ewma,
          last, at_baseline, delivered_run, applied_run, frozen,
          lock, poisoned, pc, wl, kl, rl, ret, seen, calls, ref,
          state_probs, BACKSPACE_TIMES, LAST_KEY_TIME, LAST_BACKSPACE_PRESS,
          clock, presses, kb,
          IME_ACTIVE, candidate_visible, uia_found, composing, ime,
          LAST_STATE, HWND_OVERLAY_STATIC, overlay, ov, kpoisoned,
          EVENT_SENDER, channel, hc>>

----------------------------------------------------------------------------
(* Bounds of the model.                                                    *)

\* Units per 1.0 of a probability or a score.
Scale == 20

\* Longest backspace run explored (the u32 counter itself is unbounded
\* below 2^32).
MaxStreak == 6

\* Calls started, over all threads, in the threaded specification.
MaxCalls == 3

\* Mutexes that get poisoned in the threaded specification.
MaxPoisoned == 1

\* Capacity of the channel behind EVENT_SENDER.
ChannelCap == 2

\* Key-down events delivered to the legacy keyboard hook.
MaxKeys == 4

----------------------------------------------------------------------------
(* Arithmetic helpers.                                                     *)

\* a / b rounded to the nearest integer (a >= 0, b > 0).
Round(a, b) == (2 * a + b) \div (2 * b)

Min(a, b) == IF a < b THEN a ELSE b

Sum3(v) == v[1] + v[2] + v[3]

\* A triple given in hundredths, in units of 1/Scale.
Fix(v) == [j \in 1..3 |-> Round(v[j] * Scale, 100)]

----------------------------------------------------------------------------
(* Key codes: Option<u32> is a sequence of length at most one.             *)

VK_BACK == 8

None == << >>

Some(k) == <<k>>

\* No key, backspace, and one other recognized key ('A').
VkCodes == {None, Some(VK_BACK), Some(65)}

----------------------------------------------------------------------------
(* Fixed tables (CognitiveStateEngine::new).                               *)

n_states == 3

n_obs == 11

\* transitions[i * 3 + j], in hundredths.
transitions ==
    << 92,  7,  1,
       10, 82,  8,
        5, 15, 80 >>

\* Variant: column 10 carries no penalty (Stuck never emits it).
emissions_no_penalty ==
    << 35, 25, 15, 10,  7,  5,  2,  1,  0,  0,  0,
        2,  3,  5,  8, 10, 15, 20, 20, 10,  6,  1,
        0,  0,  1,  2,  5, 10, 20, 30, 20, 10,  0 >>

\* Variant: no state emits symbol 10.
emissions_dead_column ==
    << 35, 25, 15, 10,  7,  5,  2,  1,  0,  0,  0,
        2,  3,  5,  8, 10, 15, 20, 20, 10,  6,  0,
        0,  0,  1,  2,  5, 10, 20, 30, 20, 10,  0 >>

\* emissions[j * 11 + obs], in hundredths.
emissions ==
    << 35, 25, 15, 10,  7,  5,  2,  1,  0,  0,  0,
        2,  3,  5,  8, 10, 15, 20, 20, 10,  6,  1,
        0,  0,  1,  2,  5, 10, 20, 30, 20, 10, 99 >>

initial_probs == Fix(<<70, 20, 10>>)

flow_probs == Fix(<<98, 1, 1>>)

----------------------------------------------------------------------------
(* Features and the stuck score (calculate_s_stuck).                       *)
(* f1, f2 in ms and ms^2; f3, f6 in percent; f4 in characters; f5 a count. *)

BETA_F1 == 250

BETA_F2 == 2000

BETA_F3 == 10

BETA_F4 == 2

BETA_F5 == 3

BETA_F6 == 15

\* The response function of analysis::features: saturating, increasing,
\* 0 at or below zero, one half at value = beta.
phi(value, beta) ==
    IF value <= 0 THEN 0 ELSE Round(value * Scale, value + beta)

calculate_s_stuck(features) ==
    LET phi1 == phi(features.f1, BETA_F1)
        phi2 == phi(features.f2, BETA_F2)
        phi3 == phi(features.f3, BETA_F3)
        phi4_inv == Scale - phi(features.f4, BETA_F4)
        phi5 == phi(features.f5, BETA_F5)
        phi6 == phi(features.f6, BETA_F6)
    IN  Round(30 * phi1 + 10 * phi2 + 15 * phi3 + 15 * phi6
              + 15 * phi4_inv + 15 * phi5, 100)

Feat(a, b, c, d, e, f) == [f1 |-> a, f2 |-> b, f3 |-> c, f4 |-> d, f5 |-> e, f6 |-> f]

\* No data yet (f1 = 0), a negative flight time, fast typing, neutral
\* typing (every feature at its beta), and struggling.
FeatureSet ==
    { Feat(0, 0, 0, 0, 0, 0),
      Feat(0 - 40, 50, 2, 8, 0, 0),
      Feat(60, 50, 2, 8, 0, 0),
      Feat(250, 2000, 10, 2, 3, 15),
      Feat(1500, 8000, 40, 1, 9, 60) }

----------------------------------------------------------------------------
(* The steps of update, in the order of the code.                          *)

\* The streak is a u32 (engine.rs:21).  It is held as its 32-bit pattern,
\* which the integers here read as signed: the values above 2^31 - 1 are the
\* negative numbers, u32::MAX is -1, and s + 1 is the wrapping sum.
U32_MAX == -1

\* a < b and a >= b on u32 values.
u32_lt(a, b) ==
    IF (a < 0) = (b < 0) THEN a < b ELSE b < 0

u32_ge(a, b) == ~u32_lt(a, b)

\* engine.rs:178: `*s += 1` has no room left.
add_overflows(s) == s = U32_MAX

\* Variant: a call without a key code resets the streak too.
streak_step_reset_on_none(s, vk_code) ==
    IF vk_code = Some(VK_BACK) THEN s + 1 ELSE 0

\* Variant: another key does not reset the streak.
streak_step_never_reset(s, vk_code) ==
    IF vk_code = Some(VK_BACK) THEN s + 1 ELSE s

\* engine.rs:174-193: the new value of the streak counter.
streak_step(s, vk_code) ==
    IF vk_code = Some(VK_BACK) THEN s + 1
    ELSE IF vk_code # None THEN 0
    ELSE s

\* Variant: the penalty starts one backspace early.
apply_backspace_penalty_early(streak) == u32_ge(streak, 4)

\* Variant: the penalty starts one backspace late.
apply_backspace_penalty_late(streak) == u32_ge(streak, 6)

\* engine.rs:195
apply_backspace_penalty(streak) == u32_ge(streak, 5)

\* Variant: the weights are swapped.
ewma_step_swapped(ewma, raw_s_stuck) == Round(7 * raw_s_stuck + 3 * ewma, 10)

\* Variant: the old value is not damped.
ewma_step_undamped(ewma, raw_s_stuck) == Round(3 * raw_s_stuck + 10 * ewma, 10)

\* engine.rs:202-212: s_t = 0.3 * raw_t + 0.7 * s_{t-1}
ewma_step(ewma, raw_s_stuck) == Round(3 * raw_s_stuck + 7 * ewma, 10)

\* An f64 that is not a number, held as a value no score can take.
NaN == -1000000

\* Variant: the score is rounded to the nearest bin, not truncated.
score_bin_rounded(s_stuck) ==
    IF s_stuck = NaN \/ s_stuck < 0 THEN 0
    ELSE Min(Round(s_stuck * 10, Scale), 10)

\* Variant: the cast result is used without .min(10).
score_bin_unclamped(s_stuck) ==
    IF s_stuck = NaN \/ s_stuck < 0 THEN 0 ELSE (s_stuck * 10) \div Scale

\* engine.rs:215: ((s_stuck * 10.0) as usize).min(10); the cast truncates
\* toward zero and saturates a negative value or a NaN to 0.
score_bin(s_stuck) ==
    IF s_stuck = NaN \/ s_stuck < 0 THEN 0
    ELSE Min((s_stuck * 10) \div Scale, 10)

\* engine.rs:215-220
observation(s_stuck, streak) ==
    IF apply_backspace_penalty(streak) THEN 10 ELSE score_bin(s_stuck)

\* Variant: the transition table is read transposed.
trans_sum_transposed(old_probs, j) ==
    old_probs[1] * transitions[j * n_states + 0 + 1]
  + old_probs[2] * transitions[j * n_states + 1 + 1]
  + old_probs[3] * transitions[j * n_states + 2 + 1]

\* engine.rs:236-240
trans_sum(old_probs, j) ==
    old_probs[1] * transitions[0 * n_states + j + 1]
  + old_probs[2] * transitions[1 * n_states + j + 1]
  + old_probs[3] * transitions[2 * n_states + j + 1]

\* engine.rs:242-243: new_probs[j] before normalisation, in units of
\* 1/(Scale * 100 * 100).
unnormalized(old_probs, obs) ==
    [j \in 1..n_states |->
        trans_sum(old_probs, j - 1) * emissions[(j - 1) * n_obs + obs + 1]]

\* engine.rs:244
sum_prob(old_probs, obs) == Sum3(unnormalized(old_probs, obs))

\* Variant: the division is left out.
normalize_never(new_probs, total) ==
    [j \in 1..n_states |-> Round(new_probs[j], 100 * 100)]

\* engine.rs:248-252: the division, done only when sum_prob > 0.
normalize(new_probs, total) ==
    IF total > 0
    THEN [j \in 1..n_states |-> Round(new_probs[j] * Scale, total)]
    ELSE [j \in 1..n_states |-> Round(new_probs[j], 100 * 100)]

\* engine.rs:228-255: the vector stored by `*current = new_probs`.
forward_step(old_probs, obs) ==
    normalize(unnormalized(old_probs, obs), sum_prob(old_probs, obs))

----------------------------------------------------------------------------
(* History bookkeeping (not engine state).                                 *)

\* Trailing run of backspace codes after one more call carrying vk_code.
RunAfter(run, vk_code) ==
    IF vk_code = None THEN run
    ELSE IF vk_code = <<VK_BACK>> THEN run + 1
    ELSE 0

NoCall == [op |-> "new", vk_code |-> None, nodata |-> FALSE, skipped |-> FALSE,
           obs |-> None, degenerate |-> FALSE, from_baseline |-> FALSE,
           raw |-> 0, ret |-> None, arg |-> None]


----------------------------------------------------------------------------
(* Threads and mutexes.  Each mutable field sits in its own                *)
(* std::sync::Mutex (engine.rs:19-25).  `hook` calls update, `ui` calls    *)
(* get_current_state and get_paused, `ime` calls set_paused and            *)
(* force_flow_state.                                                       *)

Mutexes == {"probs", "paused", "streak", "ewma"}

Threads == {"hook", "ui", "ime"}

Idle == <<"idle", "-">>

Panicked == <<"panicked", "-">>

NoLocals == [features |-> Feat(0, 0, 0, 0, 0, 0), vk_code |-> None,
             streak |-> 0, s_stuck |-> 0, err_arms |-> {}]

EngineState ==
    <<current_state_probs, s_stuck_ewma, backspace_streak, is_paused>>

InitThreads ==
    /\ lock = [m \in Mutexes |-> "free"]
    /\ poisoned = {}
    /\ pc = [t \in Threads |-> Idle]
    /\ wl = NoLocals
    /\ kl = None
    /\ rl = << >>
    /\ ret = None
    /\ seen = {}
    /\ calls = [t \in Threads |-> 0]
    /\ ref = Some(EngineState)

----------------------------------------------------------------------------
(* The legacy keyboard hook and its HMM (src/src).                         *)

\* rules.rs:3-15
FlowState == {"Flow", "Incubation", "Stuck"}

\* Variant: the hesitation threshold is exclusive.
classify_state_exclusive(flight_time_ms, backspace_count, pause_after_delete_ms) ==
    IF pause_after_delete_ms # None /\ pause_after_delete_ms[1] > 2000
    THEN "Stuck"
    ELSE IF flight_time_ms > 500 \/ backspace_count > 5 THEN "Stuck"
    ELSE IF flight_time_ms < 100 /\ backspace_count < 2 THEN "Flow"
    ELSE "Incubation"

\* rules.rs:41-65
classify_state(flight_time_ms, backspace_count, pause_after_delete_ms) ==
    IF pause_after_delete_ms # None /\ pause_after_delete_ms[1] >= 2000
    THEN "Stuck"
    ELSE LET flight_time_exceeds_threshold == flight_time_ms > 500
             backspace_exceeds_threshold == backspace_count > 5
             flight_time_normal == flight_time_ms < 100
             backspace_minimal == backspace_count < 2
         IN  IF flight_time_exceeds_threshold \/ backspace_exceeds_threshold
             THEN "Stuck"
             ELSE IF flight_time_normal /\ backspace_minimal THEN "Flow"
             ELSE "Incubation"

\* integration_tests.rs:29-37: the two-argument mirror.
classify_state_mirror(flight_time_ms, backspace_count) ==
    IF flight_time_ms > 500 \/ backspace_count > 5 THEN "Stuck"
    ELSE IF flight_time_ms < 100 /\ backspace_count < 2 THEN "Flow"
    ELSE "Incubation"

\* An f64 likelihood is held as <<m, e>>, the value m * 10^(-e), with four
\* significant digits: m is 0 or in 1000..9999.
RECURSIVE Pow10(_)
Pow10(n) == IF n <= 0 THEN 1 ELSE 10 * Pow10(n - 1)

RECURSIVE fnorm(_)
fnorm(x) ==
    IF x[1] = 0 THEN <<0, 0>>
    ELSE IF x[1] >= 10000 THEN fnorm(<<x[1] \div 10, x[2] - 1>>)
    ELSE IF x[1] < 1000 THEN fnorm(<<x[1] * 10, x[2] + 1>>)
    ELSE x

\* The likelihood that is not a number.
FNaN == <<NaN, 0>>

flt_lt(a, b) ==
    IF a[1] = 0 \/ b[1] = 0 THEN a[1] < b[1]
    ELSE a[2] > b[2] \/ (a[2] = b[2] /\ a[1] < b[1])

\* f64::max: the other operand when one is NaN.
fmax(a, b) ==
    IF a = FNaN THEN b
    ELSE IF b = FNaN THEN a
    ELSE IF flt_lt(a, b) THEN b ELSE a

fmul(a, b) == fnorm(<<a[1] * b[1], a[2] + b[2]>>)

\* hmm.rs:21: 1e-10
MIN_OBSERVATION_PROB == <<1000, 13>>

\* hmm.rs:57-64: transition[from][to], in hundredths.
transition ==
    << <<85, 10,  5>>,
       <<40, 45, 15>>,
       <<30, 20, 50>> >>

\* hmm.rs:165-169: (mean, std_dev) of the flight time, in tenths.
ft_params == << <<500, 300>>, <<2500, 1000>>, <<10000, 5000>> >>

\* hmm.rs:173-177: (mean, std_dev) of the backspace count, in tenths.
bs_params == << <<3, 7>>, <<10, 10>>, <<35, 15>> >>

\* 10^(-r/10) for r = 0..9, in thousandths.
tenth_powers == <<1000, 794, 631, 501, 398, 316, 251, 200, 158, 126>>

\* hmm.rs:205-209, arguments in tenths.  The distance from the mean is taken
\* in hundredths of std_dev; exp(-y) is 10^(-0.4343 y), to a tenth of a
\* decade; beyond 12 std_dev the density is below 1e-30 and is held as 0.
gaussian_pdf(x, mean, std_dev) ==
    IF x = NaN THEN FNaN
    ELSE LET d == IF x >= mean THEN x - mean ELSE mean - x
             coefficient == fnorm(<<(39894 * 10000) \div std_dev, 8>>)
         IN  IF d >= 12 * std_dev THEN <<0, 0>>
             ELSE LET z == (d * 100) \div std_dev
                      y == (z * z) \div 2000
                      decades == Round(y * 4343, 10000)
                  IN  fnorm(<<coefficient[1] * tenth_powers[(decades % 10) + 1],
                              coefficient[2] + 3 + (decades \div 10)>>)

tenths(x) == IF x = NaN THEN NaN ELSE x * 10

\* hmm.rs:163-192
calculate_observation_probs(flight_time, backspace_count) ==
    [idx \in 1..3 |->
        LET p_ft == fmax(gaussian_pdf(tenths(flight_time), ft_params[idx][1],
                                      ft_params[idx][2]),
                         MIN_OBSERVATION_PROB)
            p_bs == fmax(gaussian_pdf(tenths(backspace_count),
                                      bs_params[idx][1], bs_params[idx][2]),
                         MIN_OBSERVATION_PROB)
        IN  fmul(p_ft, p_bs)]

\* hmm.rs:125-134: the unnormalised posterior, each entry <<m, e>>.
hmm_forward(probs, obs_probs) ==
    [to \in 1..3 |->
        <<(probs[1] * transition[1][to] + probs[2] * transition[2][to]
             + probs[3] * transition[3][to]) * obs_probs[to][1],
          obs_probs[to][2]>>]

\* The entries of v brought to the exponent of the largest one.
aligned(v) ==
    LET exps == {v[j][2] : j \in {k \in 1..3 : v[k][1] > 0}}
        lowest == CHOOSE e \in exps : \A f \in exps : e <= f
    IN  [j \in 1..3 |->
            IF v[j][1] = 0 \/ v[j][2] - lowest > 9 THEN 0
            ELSE v[j][1] \div Pow10(v[j][2] - lowest)]

\* Variant: the posterior is stored without the division by the total.
hmm_normalize_never(new_state_probs) ==
    IF \E j \in 1..3 : new_state_probs[j][1] > 0
    THEN LET mass == aligned(new_state_probs)
         IN  [j \in 1..3 |-> Round(mass[j], 100 * 1000)]
    ELSE [j \in 1..3 |-> Round(Scale, 3)]

\* hmm.rs:137-145: division by the total, or equal thirds when it is 0.
hmm_normalize(new_state_probs) ==
    IF \E j \in 1..3 : new_state_probs[j][1] > 0
    THEN LET mass == aligned(new_state_probs)
             total == mass[1] + mass[2] + mass[3]
         IN  [j \in 1..3 |-> Round(mass[j] * Scale, total)]
    ELSE [j \in 1..3 |-> Round(Scale, 3)]

\* hmm.rs:117-147: the vector stored in state_probs.
hmm_update(probs, flight_time, backspace_count) ==
    hmm_normalize(hmm_forward(probs,
        calculate_observation_probs(flight_time, backspace_count)))

\* Variant: the first of equal maxima is kept.
most_likely_state_first(probs) ==
    IF probs[1] >= probs[2] /\ probs[1] >= probs[3] THEN "Flow"
    ELSE IF probs[2] >= probs[3] THEN "Incubation"
    ELSE "Stuck"

\* integration_tests.rs:79-86: the arg-max of SimpleHMM::update.
SimpleHMM_argmax(state_probs_) ==
    IF state_probs_[1] >= state_probs_[2] /\ state_probs_[1] >= state_probs_[3]
    THEN "Flow"
    ELSE IF state_probs_[2] >= state_probs_[3] THEN "Incubation"
    ELSE "Stuck"

\* hmm.rs:142-145: the fallback vector [1/3, 1/3, 1/3].
fallback_probs == hmm_normalize(<< <<0, 0>>, <<0, 0>>, <<0, 0>> >>)

\* hmm.rs:83-96: max_by keeps the last of equal maxima.
most_likely_state(probs) ==
    IF probs[3] >= probs[1] /\ probs[3] >= probs[2] THEN "Stuck"
    ELSE IF probs[2] >= probs[1] THEN "Incubation"
    ELSE "Flow"

\* keyboard.rs:38
MIN_FLIGHT_TIME_FOR_INPUT == 10

\* Nothing computed yet.
NoKey == [keys |-> 0, op |-> "none", flight_time_ms |-> 0,
          backspace_count |-> 0, pause_after_delete_ms |-> None,
          rule_state |-> "Flow", hmm_count |-> 0, hmm_state |-> "Flow",
          recent |-> 0, event |-> "none", processed |-> FALSE,
          next_hook |-> 0, panicked |-> FALSE, halted |-> FALSE]

InitLegacy ==
    /\ state_probs = <<Scale, 0, 0>>
    /\ BACKSPACE_TIMES = << >>
    /\ LAST_KEY_TIME = None
    /\ LAST_BACKSPACE_PRESS = None
    /\ clock = 0
    /\ presses = {}
    /\ kb = NoKey

----------------------------------------------------------------------------
(* IME detection (hook.rs, ime.rs).                                        *)

\* hook.rs:19-21
EVENT_OBJECT_IME_CHANGE == 32790

EVENT_OBJECT_IME_SHOW == 32791

EVENT_OBJECT_IME_HIDE == 32792

\* Variant: a change of the composition string is not taken as activity.
event_store_show_only(event) ==
    IF event = EVENT_OBJECT_IME_SHOW THEN Some(TRUE)
    ELSE IF event = EVENT_OBJECT_IME_HIDE THEN Some(FALSE)
    ELSE None

\* hook.rs:66-76: the value win_event_callback stores, if it stores one.
event_store(event) ==
    IF event \in {EVENT_OBJECT_IME_SHOW, EVENT_OBJECT_IME_CHANGE}
    THEN Some(TRUE)
    ELSE IF event = EVENT_OBJECT_IME_HIDE THEN Some(FALSE)
    ELSE None

\* Variant: the flag is never taken to be stale.
is_stale_never(winevent_active, enumwindows_active, uia_active) == FALSE

\* ime.rs:94
is_stale(winevent_active, enumwindows_active, uia_active) ==
    winevent_active /\ ~enumwindows_active /\ ~uia_active

\* No call and no event yet; IME_ACTIVE holds its initializer (hook.rs:30).
NoIme == [pc |-> "idle", op |-> "none", event |-> 0, ret |-> FALSE,
          winevent_active |-> FALSE, enumwindows_active |-> FALSE,
          uia_active |-> FALSE, event_stored |-> FALSE,
          last_stored |-> FALSE, stale_reset |-> FALSE]

InitIme ==
    /\ IME_ACTIVE = FALSE
    /\ candidate_visible = FALSE
    /\ uia_found = FALSE
    /\ composing = FALSE
    /\ ime = NoIme

----------------------------------------------------------------------------
(* The overlay of the legacy program (src/main.rs, src/ui/overlay.rs).     *)

\* overlay.rs:128-144: <<alpha, color>> of each state.
appearance(state) ==
    CASE state = "Flow" -> <<0, 0>>
      [] state = "Incubation" -> <<25, 16777113>>
      [] state = "Stuck" -> <<76, 16777215>>

\* No overlay call yet; main has not reached its message loop.
NoOverlay == [calls |-> << >>, started |-> FALSE, failed |-> FALSE]

InitOverlay ==
    /\ LAST_STATE = None
    /\ HWND_OVERLAY_STATIC = 0
    /\ overlay = None
    /\ ov = NoOverlay
    /\ kpoisoned = {}

----------------------------------------------------------------------------
(* The keyboard hook that feeds the engine (src-tauri/src/input/hook.rs).  *)

\* hook.rs:12-13
KeyMessages == {"WM_KEYDOWN", "WM_SYSKEYDOWN", "WM_KEYUP", "WM_SYSKEYUP"}

\* hook.rs:150
is_press(event_type) == event_type \in {"WM_KEYDOWN", "WM_SYSKEYDOWN"}

\* hook.rs:151
is_release(event_type) == event_type \in {"WM_KEYUP", "WM_SYSKEYUP"}

\* Variant: the callback takes the sender's mutex with lock().
try_lock_blocking(state) ==
    IF state = "free" THEN "ok" ELSE IF state = "held" THEN "wait" ELSE "err"

\* hook.rs:167: Mutex::try_lock is Ok on a free mutex, Err(WouldBlock) on a
\* held one and Err(Poisoned) on a poisoned one.
try_lock(state) == IF state = "free" THEN "ok" ELSE "err"

\* hook.rs:169: Sender::try_send is Err(Full) on a full channel and
\* Err(Disconnected) once the receiver is gone.
try_send(chan, event) ==
    IF chan.connected /\ Len(chan.queue) < ChannelCap
    THEN [chan EXCEPT !.queue = Append(@, event)]
    ELSE chan

\* No invocation yet.
NoHook == [n |-> 0, code |-> 0, msg |-> "none", calls_next |-> 0,
           outcome |-> "none", waited |-> FALSE]

\* hook.rs:54: lazy_static EVENT_SENDER, Mutex::new(None).
InitHook ==
    /\ EVENT_SENDER = [lock |-> "free", sender |-> None]
    /\ channel = [queue |-> << >>, connected |-> TRUE]
    /\ hc = NoHook

----------------------------------------------------------------------------
(* State machine, one call at a time.                                      *)

\* Variant: the earlier prior [0.5, 0.4, 0.1].
Init_old_prior ==
    /\ current_state_probs = Fix(<<50, 40, 10>>)
    /\ is_paused = FALSE
    /\ backspace_streak = 0
    /\ s_stuck_ewma = 0
    /\ last = NoCall
    /\ at_baseline = FALSE
    /\ delivered_run = 0
    /\ applied_run = 0
    /\ frozen = None
    /\ InitThreads
    /\ InitLegacy
    /\ InitIme
    /\ InitOverlay
    /\ InitHook

\* CognitiveStateEngine::new, engine.rs:76-85
Init ==
    /\ current_state_probs = initial_probs
    /\ is_paused = FALSE
    /\ backspace_streak = 0
    /\ s_stuck_ewma = 0
    /\ last = NoCall
    /\ at_baseline = FALSE
    /\ delivered_run = 0
    /\ applied_run = 0
    /\ frozen = None
    /\ InitThreads
    /\ InitLegacy
    /\ InitIme
    /\ InitOverlay
    /\ InitHook

\* Variant: resuming clears the backspace streak (a reset, not a freeze).
SetPaused_resets(paused) ==
    /\ UNCHANGED tvars
    /\ UNCHANGED xvars
    /\ is_paused' = paused
    /\ backspace_streak' = IF paused THEN backspace_streak ELSE 0
    /\ last' = [NoCall EXCEPT !.op = "set_paused", !.arg = Some(paused)]
    /\ frozen' = IF paused
                 THEN Some(<<current_state_probs, s_stuck_ewma, backspace_streak>>)
                 ELSE frozen
    /\ UNCHANGED <<current_state_probs, s_stuck_ewma,
                   at_baseline, delivered_run, applied_run>>

\* engine.rs:88-93
SetPaused(paused) ==
    /\ UNCHANGED tvars
    /\ UNCHANGED xvars
    /\ is_paused' = paused
    /\ last' = [NoCall EXCEPT !.op = "set_paused", !.arg = Some(paused)]
    /\ frozen' = IF paused
                 THEN Some(<<current_state_probs, s_stuck_ewma, backspace_streak>>)
                 ELSE frozen
    /\ UNCHANGED <<current_state_probs, backspace_streak, s_stuck_ewma,
                   at_baseline, delivered_run, applied_run>>

\* Variant: the forced reset leaves the EWMA alone.
ForceFlowState_keep_ewma ==
    /\ UNCHANGED tvars
    /\ UNCHANGED xvars
    /\ current_state_probs' = flow_probs
    /\ last' = [NoCall EXCEPT !.op = "force_flow_state"]
    /\ at_baseline' = TRUE
    /\ frozen' = None
    /\ UNCHANGED <<s_stuck_ewma, is_paused, backspace_streak, delivered_run,
                   applied_run>>

\* Variant: the forced reset clears the backspace streak as well.
ForceFlowState_clear_streak ==
    /\ UNCHANGED tvars
    /\ UNCHANGED xvars
    /\ current_state_probs' = flow_probs
    /\ s_stuck_ewma' = 0
    /\ backspace_streak' = 0
    /\ last' = [NoCall EXCEPT !.op = "force_flow_state"]
    /\ at_baseline' = TRUE
    /\ frozen' = None
    /\ UNCHANGED <<is_paused, delivered_run, applied_run>>

\* engine.rs:97-108
ForceFlowState ==
    /\ UNCHANGED tvars
    /\ UNCHANGED xvars
    /\ current_state_probs' = flow_probs
    /\ s_stuck_ewma' = 0
    /\ last' = [NoCall EXCEPT !.op = "force_flow_state"]
    /\ at_baseline' = TRUE
    /\ frozen' = None
    /\ UNCHANGED <<is_paused, backspace_streak, delivered_run, applied_run>>

\* engine.rs:111-116: the value get_paused returns.
get_paused == is_paused

\* Variant: reading the flag takes it, leaving false behind.
GetPaused_takes ==
    /\ UNCHANGED tvars
    /\ UNCHANGED xvars
    /\ last' = [NoCall EXCEPT !.op = "get_paused", !.ret = Some(get_paused)]
    /\ is_paused' = FALSE
    /\ UNCHANGED <<current_state_probs, backspace_streak,
                   s_stuck_ewma, at_baseline, delivered_run, applied_run,
                   frozen>>

\* engine.rs:111-116
GetPaused ==
    /\ UNCHANGED tvars
    /\ UNCHANGED xvars
    /\ last' = [NoCall EXCEPT !.op = "get_paused", !.ret = Some(get_paused)]
    /\ UNCHANGED <<current_state_probs, is_paused, backspace_streak,
                   s_stuck_ewma, at_baseline, delivered_run, applied_run,
                   frozen>>

\* engine.rs:6-11
CognitiveState == {"Flow", "Incubation", "Stuck"}

\* engine.rs:258-269: the map get_current_state returns.
get_current_state ==
    [s \in CognitiveState |->
        IF s = "Flow" THEN current_state_probs[1]
        ELSE IF s = "Incubation" THEN current_state_probs[2]
        ELSE current_state_probs[3]]

\* engine.rs:258-269
GetCurrentState ==
    /\ UNCHANGED tvars
    /\ UNCHANGED xvars
    /\ last' = [NoCall EXCEPT !.op = "get_current_state",
                              !.ret = Some(get_current_state)]
    /\ UNCHANGED <<current_state_probs, is_paused, backspace_streak,
                   s_stuck_ewma, at_baseline, delivered_run, applied_run,
                   frozen>>

\* Variant: the pause gate is missing.
update_skipped_ignores_pause(features) == features.f1 <= 0

\* Variant: a flight time of exactly zero is not skipped.
update_skipped_strict(features) == is_paused \/ features.f1 < 0

\* engine.rs:164-171: the two early returns.
update_skipped(features) == is_paused \/ features.f1 <= 0

\* engine.rs:173-255: an update that is not skipped.
Apply(features, vk_code) ==
    LET streak == streak_step(backspace_streak, vk_code)
        raw_s_stuck == calculate_s_stuck(features)
        s_stuck == ewma_step(s_stuck_ewma, raw_s_stuck)
        obs == observation(s_stuck, streak)
        old_probs == current_state_probs
    IN  /\ backspace_streak' = streak
        /\ s_stuck_ewma' = s_stuck
        /\ current_state_probs' = forward_step(old_probs, obs)
        /\ last' = [op |-> "update", vk_code |-> vk_code,
                    nodata |-> (features.f1 <= 0), skipped |-> FALSE,
                    obs |-> Some(obs),
                    degenerate |-> (sum_prob(old_probs, obs) = 0),
                    from_baseline |-> at_baseline,
                    raw |-> raw_s_stuck, ret |-> None, arg |-> None]
        /\ at_baseline' = FALSE
        /\ applied_run' = RunAfter(applied_run, vk_code)
        /\ UNCHANGED is_paused

\* The increment at engine.rs:178 is reached with the counter at u32::MAX.
streak_overflows(features, vk_code) ==
    /\ ~update_skipped(features)
    /\ vk_code = Some(VK_BACK)
    /\ add_overflows(backspace_streak)

\* engine.rs:163-256, with the increment in range.
Update(features, vk_code) ==
    /\ UNCHANGED tvars
    /\ UNCHANGED xvars
    /\ ~streak_overflows(features, vk_code)
    /\ vk_code = Some(VK_BACK) =>
          /\ backspace_streak < MaxStreak
          /\ delivered_run < MaxStreak
          /\ applied_run < MaxStreak
    /\ delivered_run' = RunAfter(delivered_run, vk_code)
    /\ frozen' = IF update_skipped(features) THEN frozen ELSE None
    /\ IF update_skipped(features)
       THEN /\ last' = [NoCall EXCEPT !.op = "update", !.vk_code = vk_code,
                                      !.nodata = (features.f1 <= 0), !.skipped = TRUE]
            /\ UNCHANGED <<current_state_probs, is_paused, backspace_streak,
                           s_stuck_ewma, at_baseline, applied_run>>
       ELSE Apply(features, vk_code)

Next ==
    \/ \E paused \in BOOLEAN : SetPaused(paused)
    \/ ForceFlowState
    \/ GetPaused
    \/ GetCurrentState
    \/ \E features \in FeatureSet, vk_code \in VkCodes : Update(features, vk_code)

Spec == Init /\ [][Next]_vars

----------------------------------------------------------------------------
(* State machine, threaded: every lock() and every release is a step.      *)

ThreadFeatures ==
    { Feat(0, 0, 0, 0, 0, 0),
      Feat(1500, 8000, 40, 1, 9, 60) }

ThreadVkCodes == {Some(VK_BACK), Some(65)}

\* Mutex::lock on m: Err(PoisonError) once a holder of m has panicked.
lock_result(m) == IF m \in poisoned THEN "Err" ELSE "Ok"

\* Variant: the result of lock() is unwrapped.
on_lock_unwrap(result) == IF result = "Err" THEN "panic" ELSE "proceed"

\* engine.rs:89-92, 99-107, 112-115, 174-193, 202-212, 223-226, 260-263:
\* every match on lock() has an Ok arm and an Err arm that takes the
\* guard with into_inner; neither panics.
on_lock(result) == "proceed"

\* engine.rs:184-192: the Err arm of the streak lock.
streak_step_poisoned(s, vk_code) ==
    IF vk_code = Some(VK_BACK) THEN s + 1
    ELSE IF vk_code # None THEN 0
    ELSE s

\* engine.rs:207-211: the Err arm of the EWMA lock.
ewma_step_poisoned(ewma, raw_s_stuck) == Round(3 * raw_s_stuck + 7 * ewma, 10)

\* engine.rs:114: the Err arm of get_paused.
get_paused_poisoned == is_paused

\* The calls made so far, run one at a time in the order they began.
seq_update(st, features, vk_code) ==
    IF st[4] \/ features.f1 <= 0 THEN st
    ELSE LET streak == streak_step(st[3], vk_code)
             s_stuck == ewma_step(st[2], calculate_s_stuck(features))
         IN  <<forward_step(st[1], observation(s_stuck, streak)),
               s_stuck, streak, st[4]>>

seq_set_paused(st, paused) == <<st[1], st[2], st[3], paused>>

seq_force_flow_state(st) == <<flow_probs, 0, st[3], st[4]>>

\* A call of thread t begins: it is run on ref unless it overlaps a call of
\* thread `other`, after which ref no longer says anything.
RefAfter(other, st) == IF ref = None \/ pc[other] # Idle THEN None ELSE Some(st)

Begin(t, m) ==
    /\ pc[t] = Idle
    /\ calls["hook"] + calls["ui"] + calls["ime"] < MaxCalls
    /\ calls' = [calls EXCEPT ![t] = @ + 1]
    /\ pc' = [pc EXCEPT ![t] = <<"lock", m>>]

\* Variant: the guard is kept while the next mutex is taken.
Release_late(t, m, next) ==
    /\ lock' = IF next = Idle THEN [k \in Mutexes |->
                                      IF lock[k] = t THEN "free" ELSE lock[k]]
               ELSE lock
    /\ pc' = [pc EXCEPT ![t] = next]

Release(t, m, next) ==
    /\ lock' = [lock EXCEPT ![m] = "free"]
    /\ pc' = [pc EXCEPT ![t] = next]

\* Variant: the reader proceeds without owning the mutex.
Acquire_no_exclusion(t) ==
    /\ UNCHANGED svars
    /\ UNCHANGED xvars
    /\ pc[t][1] = "lock"
    /\ t = "ui" \/ lock[pc[t][2]] = "free"
    /\ pc' = [pc EXCEPT ![t] = <<"held", pc[t][2]>>]
    /\ lock' = IF t = "ui" THEN lock ELSE [lock EXCEPT ![pc[t][2]] = t]
    /\ wl' = IF t = "hook" /\ pc[t][2] \in poisoned
             THEN [wl EXCEPT !.err_arms = @ \cup {pc[t][2]}]
             ELSE wl
    /\ UNCHANGED <<current_state_probs, is_paused, backspace_streak,
                   s_stuck_ewma, poisoned, kl, rl, ret, seen, calls, ref>>

\* Every `match self.<field>.lock()`: blocks while the mutex is held.
Acquire(t) ==
    /\ UNCHANGED svars
    /\ UNCHANGED xvars
    /\ pc[t][1] = "lock"
    /\ lock[pc[t][2]] = "free"
    /\ IF on_lock(lock_result(pc[t][2])) = "panic"
       THEN /\ pc' = [pc EXCEPT ![t] = Panicked]
            /\ UNCHANGED lock
       ELSE /\ pc' = [pc EXCEPT ![t] = <<"held", pc[t][2]>>]
            /\ lock' = [lock EXCEPT ![pc[t][2]] = t]
    /\ wl' = IF t = "hook" /\ pc[t][2] \in poisoned
             THEN [wl EXCEPT !.err_arms = @ \cup {pc[t][2]}]
             ELSE wl
    /\ UNCHANGED <<current_state_probs, is_paused, backspace_streak,
                   s_stuck_ewma, poisoned, kl, rl, ret, seen, calls, ref>>

\* A thread holding m panicked (is_paused and backspace_streak are public
\* fields, engine.rs:20-21, and the engine is Clone over shared Arcs).
PoisonMutex(m) ==
    /\ UNCHANGED svars
    /\ UNCHANGED xvars
    /\ lock[m] = "free"
    /\ m \notin poisoned
    /\ Cardinality(poisoned) < MaxPoisoned
    /\ poisoned' = poisoned \cup {m}
    /\ UNCHANGED <<current_state_probs, is_paused, backspace_streak,
                   s_stuck_ewma, lock, pc, wl, kl, rl, ret, seen, calls, ref>>

\* engine.rs:163: update is called.
HookCall(features, vk_code) ==
    /\ UNCHANGED svars
    /\ UNCHANGED xvars
    /\ Begin("hook", "paused")
    /\ wl' = [NoLocals EXCEPT !.features = features, !.vk_code = vk_code]
    /\ ref' = RefAfter("ime", seq_update(ref[1], features, vk_code))
    /\ UNCHANGED <<current_state_probs, is_paused, backspace_streak,
                   s_stuck_ewma, lock, poisoned, kl, rl, ret, seen>>

\* engine.rs:164-171: get_paused, then the two early returns.
HookPausedHeld ==
    /\ UNCHANGED svars
    /\ UNCHANGED xvars
    /\ pc["hook"] = <<"held", "paused">>
    /\ LET paused == IF "paused" \in poisoned THEN get_paused_poisoned
                     ELSE get_paused
       IN  Release("hook", "paused",
                   IF paused \/ wl.features.f1 <= 0 THEN Idle
                   ELSE <<"lock", "streak">>)
    /\ UNCHANGED <<current_state_probs, is_paused, backspace_streak,
                   s_stuck_ewma, poisoned, wl, kl, rl, ret, seen, calls, ref>>

\* engine.rs:174-193
HookStreakHeld ==
    /\ UNCHANGED svars
    /\ UNCHANGED xvars
    /\ pc["hook"] = <<"held", "streak">>
    /\ LET streak == IF "streak" \in poisoned
                     THEN streak_step_poisoned(backspace_streak, wl.vk_code)
                     ELSE streak_step(backspace_streak, wl.vk_code)
       IN  /\ backspace_streak' = streak
           /\ wl' = [wl EXCEPT !.streak = streak]
    /\ Release("hook", "streak", <<"lock", "ewma">>)
    /\ UNCHANGED <<current_state_probs, is_paused, s_stuck_ewma, poisoned,
                   kl, rl, ret, seen, calls, ref>>

\* Variant: the belief step is handed the score of the keystroke before.
HookEwmaHeld_deferred ==
    /\ UNCHANGED svars
    /\ UNCHANGED xvars
    /\ pc["hook"] = <<"held", "ewma">>
    /\ s_stuck_ewma' = ewma_step(s_stuck_ewma, calculate_s_stuck(wl.features))
    /\ wl' = [wl EXCEPT !.s_stuck = s_stuck_ewma]
    /\ Release("hook", "ewma", <<"lock", "probs">>)
    /\ UNCHANGED <<current_state_probs, is_paused, backspace_streak, poisoned,
                   kl, rl, ret, seen, calls, ref>>

\* engine.rs:197-212
HookEwmaHeld ==
    /\ UNCHANGED svars
    /\ UNCHANGED xvars
    /\ pc["hook"] = <<"held", "ewma">>
    /\ LET raw_s_stuck == calculate_s_stuck(wl.features)
           s_stuck == IF "ewma" \in poisoned
                      THEN ewma_step_poisoned(s_stuck_ewma, raw_s_stuck)
                      ELSE ewma_step(s_stuck_ewma, raw_s_stuck)
       IN  /\ s_stuck_ewma' = s_stuck
           /\ wl' = [wl EXCEPT !.s_stuck = s_stuck]
    /\ Release("hook", "ewma", <<"lock", "probs">>)
    /\ UNCHANGED <<current_state_probs, is_paused, backspace_streak, poisoned,
                   kl, rl, ret, seen, calls, ref>>

\* The beliefs the reader's call in progress may return.
SeenAfter(stored) == IF pc["ui"] = Idle THEN seen ELSE seen \cup {stored}

\* engine.rs:214-256: the guard taken at 223 is held to the end.
HookProbsHeld ==
    /\ UNCHANGED svars
    /\ UNCHANGED xvars
    /\ pc["hook"] = <<"held", "probs">>
    /\ LET new_probs == forward_step(current_state_probs,
                                     observation(wl.s_stuck, wl.streak))
       IN  /\ current_state_probs' = new_probs
           /\ seen' = SeenAfter(new_probs)
    /\ Release("hook", "probs", Idle)
    /\ UNCHANGED <<is_paused, backspace_streak, s_stuck_ewma, poisoned, wl,
                   kl, rl, ret, calls, ref>>

\* engine.rs:258: get_current_state is called.
UiCallState ==
    /\ UNCHANGED svars
    /\ UNCHANGED xvars
    /\ Begin("ui", "probs")
    /\ rl' = << >>
    /\ ret' = None
    /\ seen' = {current_state_probs}
    /\ UNCHANGED <<current_state_probs, is_paused, backspace_streak,
                   s_stuck_ewma, lock, poisoned, wl, kl, ref>>

\* engine.rs:265-267: probs[0], probs[1], probs[2] are read one by one.
UiRead ==
    /\ UNCHANGED svars
    /\ UNCHANGED xvars
    /\ pc["ui"] = <<"held", "probs">>
    /\ Len(rl) < n_states
    /\ rl' = Append(rl, current_state_probs[Len(rl) + 1])
    /\ UNCHANGED <<current_state_probs, is_paused, backspace_streak,
                   s_stuck_ewma, lock, poisoned, pc, wl, kl, ret, seen, calls,
                   ref>>

\* engine.rs:268-269: the map is returned and the guard dropped.
UiReturnState ==
    /\ UNCHANGED svars
    /\ UNCHANGED xvars
    /\ pc["ui"] = <<"held", "probs">>
    /\ Len(rl) = n_states
    /\ ret' = Some([op |-> "get_current_state", value |-> rl])
    /\ rl' = << >>
    /\ Release("ui", "probs", Idle)
    /\ UNCHANGED <<current_state_probs, is_paused, backspace_streak,
                   s_stuck_ewma, poisoned, wl, kl, seen, calls, ref>>

\* engine.rs:111: get_paused is called.
UiCallPaused ==
    /\ UNCHANGED svars
    /\ UNCHANGED xvars
    /\ Begin("ui", "paused")
    /\ ret' = None
    /\ seen' = {}
    /\ UNCHANGED <<current_state_probs, is_paused, backspace_streak,
                   s_stuck_ewma, lock, poisoned, wl, kl, rl, ref>>

\* engine.rs:112-115
UiPausedHeld ==
    /\ UNCHANGED svars
    /\ UNCHANGED xvars
    /\ pc["ui"] = <<"held", "paused">>
    /\ ret' = Some([op |-> "get_paused",
                    value |-> IF "paused" \in poisoned THEN get_paused_poisoned
                              ELSE get_paused])
    /\ Release("ui", "paused", Idle)
    /\ UNCHANGED <<current_state_probs, is_paused, backspace_streak,
                   s_stuck_ewma, poisoned, wl, kl, rl, seen, calls, ref>>

\* engine.rs:88: set_paused is called.
ImeCallSetPaused(paused) ==
    /\ UNCHANGED svars
    /\ UNCHANGED xvars
    /\ Begin("ime", "paused")
    /\ kl' = Some(paused)
    /\ ref' = RefAfter("hook", seq_set_paused(ref[1], paused))
    /\ UNCHANGED <<current_state_probs, is_paused, backspace_streak,
                   s_stuck_ewma, lock, poisoned, wl, rl, ret, seen>>

\* engine.rs:89-92: both arms store the argument.
ImePausedHeld ==
    /\ UNCHANGED svars
    /\ UNCHANGED xvars
    /\ pc["ime"] = <<"held", "paused">>
    /\ is_paused' = kl[1]
    /\ Release("ime", "paused", Idle)
    /\ UNCHANGED <<current_state_probs, backspace_streak, s_stuck_ewma,
                   poisoned, wl, kl, rl, ret, seen, calls, ref>>

\* engine.rs:97: force_flow_state is called.
ImeCallForce ==
    /\ UNCHANGED svars
    /\ UNCHANGED xvars
    /\ Begin("ime", "probs")
    /\ kl' = None
    /\ ref' = RefAfter("hook", seq_force_flow_state(ref[1]))
    /\ UNCHANGED <<current_state_probs, is_paused, backspace_streak,
                   s_stuck_ewma, lock, poisoned, wl, rl, ret, seen>>

\* engine.rs:99-102: both arms store flow_probs; the guard is dropped.
ImeProbsHeld ==
    /\ UNCHANGED svars
    /\ UNCHANGED xvars
    /\ pc["ime"] = <<"held", "probs">>
    /\ current_state_probs' = flow_probs
    /\ seen' = SeenAfter(flow_probs)
    /\ Release("ime", "probs", <<"lock", "ewma">>)
    /\ UNCHANGED <<is_paused, backspace_streak, s_stuck_ewma, poisoned, wl,
                   kl, rl, ret, calls, ref>>

\* engine.rs:104-107: both arms store 0.0.
ImeEwmaHeld ==
    /\ UNCHANGED svars
    /\ UNCHANGED xvars
    /\ pc["ime"] = <<"held", "ewma">>
    /\ s_stuck_ewma' = 0
    /\ Release("ime", "ewma", Idle)
    /\ UNCHANGED <<current_state_probs, is_paused, backspace_streak, poisoned,
                   wl, kl, rl, ret, seen, calls, ref>>

ThreadNext ==
    \/ \E t \in Threads : Acquire(t)
    \/ \E m \in Mutexes : PoisonMutex(m)
    \/ \E features \in ThreadFeatures, vk_code \in ThreadVkCodes :
          HookCall(features, vk_code)
    \/ HookPausedHeld
    \/ HookStreakHeld
    \/ HookEwmaHeld
    \/ HookProbsHeld
    \/ UiCallState
    \/ UiRead
    \/ UiReturnState
    \/ UiCallPaused
    \/ UiPausedHeld
    \/ \E paused \in BOOLEAN : ImeCallSetPaused(paused)
    \/ ImePausedHeld
    \/ ImeCallForce
    \/ ImeProbsHeld
    \/ ImeEwmaHeld

ThreadSpec == Init /\ [][ThreadNext]_vars

\* The steps of a call of thread t after its first.
Continue(t) ==
    \/ Acquire(t)
    \/ t = "hook" /\ (HookPausedHeld \/ HookStreakHeld \/ HookEwmaHeld
                        \/ HookProbsHeld)
    \/ t = "ui" /\ (UiRead \/ UiReturnState \/ UiPausedHeld)
    \/ t = "ime" /\ (ImePausedHeld \/ ImeProbsHeld \/ ImeEwmaHeld)

\* Every thread makes at most one call: the calls of the three threads
\* overlap in every way.
OneCallNext == ThreadNext /\ \A t \in Threads : calls'[t] <= 1

\* Fair scheduling: a thread that can go on with its call does so.
ThreadFairSpec ==
    Init /\ [][OneCallNext]_vars /\ \A t \in Threads : WF_vars(Continue(t))

----------------------------------------------------------------------------
(* State machine at the top of the streak counter's range.                 *)

\* Backspace updates run to let belief and EWMA settle.
Settle == 8

Neutral == Feat(250, 2000, 10, 2, 3, 15)

WrapFeatures == {Feat(0, 0, 0, 0, 0, 0), Neutral}

\* overflow-checks off (the release profile) and on (the dev profile).
Builds == {"release", "debug"}

\* <<belief, EWMA>> of a fresh engine after n applied backspace updates that
\* all carry the same features.
RECURSIVE AfterBackspaces(_, _)
AfterBackspaces(features, n) ==
    IF n = 0 THEN <<initial_probs, 0>>
    ELSE LET prev == AfterBackspaces(features, n - 1)
             s_stuck == ewma_step(prev[2], calculate_s_stuck(features))
         IN  <<forward_step(prev[1], observation(s_stuck, n)), s_stuck>>

\* A fresh engine after u32::MAX - 2 applied backspace updates with neutral
\* features: belief and EWMA have stopped moving long before, the counter
\* and the run lengths are two short of u32::MAX.
WrapInit ==
    LET settled == AfterBackspaces(Neutral, Settle)
        raw_s_stuck == calculate_s_stuck(Neutral)
    IN  /\ forward_step(settled[1], 10) = settled[1]
        /\ ewma_step(settled[2], raw_s_stuck) = settled[2]
        /\ current_state_probs = settled[1]
        /\ s_stuck_ewma = settled[2]
        /\ is_paused = FALSE
        /\ backspace_streak = U32_MAX - 2
        /\ last = [op |-> "update", vk_code |-> Some(VK_BACK),
                   nodata |-> FALSE, skipped |-> FALSE, obs |-> Some(10),
                   degenerate |-> FALSE, from_baseline |-> FALSE,
                   raw |-> raw_s_stuck, ret |-> None, arg |-> None]
        /\ at_baseline = FALSE
        /\ delivered_run = U32_MAX - 2
        /\ applied_run = U32_MAX - 2
        /\ frozen = None
        /\ InitThreads
        /\ InitLegacy
        /\ InitIme
    /\ InitOverlay
    /\ InitHook

\* engine.rs:178 with the counter at u32::MAX.  With overflow checks off the
\* sum wraps and update goes on; with them on, `*s += 1` panics while the
\* streak guard is held: nothing is stored and the mutex is poisoned.
UpdateOverflow(features, build) ==
    /\ streak_overflows(features, Some(VK_BACK))
    /\ UNCHANGED xvars
    /\ IF build = "release"
       THEN /\ Apply(features, Some(VK_BACK))
            /\ delivered_run' = RunAfter(delivered_run, Some(VK_BACK))
            /\ frozen' = None
            /\ UNCHANGED tvars
       ELSE /\ poisoned' = poisoned \cup {"streak"}
            /\ pc' = [pc EXCEPT !["hook"] = Panicked]
            /\ UNCHANGED <<evars, svars, lock, wl, kl, rl, ret, seen, calls,
                           ref>>

WrapNext ==
    \/ \E features \in WrapFeatures, vk_code \in VkCodes :
          Update(features, vk_code)
    \/ \E features \in WrapFeatures, build \in Builds :
          UpdateOverflow(features, build)

WrapSpec == WrapInit /\ [][WrapNext]_vars

----------------------------------------------------------------------------
(* Scenario: a fresh engine is fed backspaces only.                        *)

StormNext ==
    \E features \in FeatureSet : Update(features, Some(VK_BACK))

StormSpec == Init /\ [][StormNext]_vars

----------------------------------------------------------------------------
(* State machine of the legacy HMM (src/inference/hmm.rs).                 *)

\* Flight times handed to update: an f64, NaN among them.
HmmFlights == {NaN, -50, 0, 40, 150, 250, 600, 2000, 100000}

\* Backspace counts handed to update.
HmmCounts == {0, 1, 3, 6, 100}

\* hmm.rs:117-149
HmmUpdate(flight_time, backspace_count) ==
    /\ state_probs' = hmm_update(state_probs, flight_time, backspace_count)
    /\ kb' = [NoKey EXCEPT !.op = "update",
                           !.flight_time_ms = flight_time,
                           !.hmm_count = backspace_count,
                           !.hmm_state = most_likely_state(state_probs')]
    /\ UNCHANGED <<BACKSPACE_TIMES, LAST_KEY_TIME, LAST_BACKSPACE_PRESS,
                   clock, presses>>
    /\ UNCHANGED <<evars, svars, tvars, ivars, ovars, hvars>>

\* hmm.rs:99-101
HmmReset ==
    /\ state_probs' = <<Scale, 0, 0>>
    /\ kb' = [NoKey EXCEPT !.op = "reset"]
    /\ UNCHANGED <<BACKSPACE_TIMES, LAST_KEY_TIME, LAST_BACKSPACE_PRESS,
                   clock, presses>>
    /\ UNCHANGED <<evars, svars, tvars, ivars, ovars, hvars>>

HmmNext ==
    \/ \E flight_time \in HmmFlights, backspace_count \in HmmCounts :
          HmmUpdate(flight_time, backspace_count)
    \/ HmmReset

HmmSpec == Init /\ [][HmmNext]_vars

\* Every probability vector in units of 1/Scale, and the fallback vector.
ProbVectors ==
    { v \in { <<a, b, Scale - a - b>> : a \in 0..Scale, b \in 0..Scale } :
        v[3] >= 0 } \cup {fallback_probs}

\* hmm.rs:83-96: most_likely_state on an HMM whose state_probs is probs.
MostLikelyState(probs) ==
    /\ state_probs' = probs
    /\ kb' = [NoKey EXCEPT !.op = "most_likely_state",
                           !.hmm_state = most_likely_state(probs)]
    /\ UNCHANGED <<BACKSPACE_TIMES, LAST_KEY_TIME, LAST_BACKSPACE_PRESS,
                   clock, presses>>
    /\ UNCHANGED <<evars, svars, tvars, ivars, ovars, hvars>>

ArgmaxNext == \E probs \in ProbVectors : MostLikelyState(probs)

ArgmaxSpec == Init /\ [][ArgmaxNext]_vars

----------------------------------------------------------------------------
(* State machine of the legacy keyboard hook (src/input/keyboard.rs): one  *)
(* step per WM_KEYDOWN delivered to keyboard_proc.                         *)

\* Milliseconds between one key-down and the next.
KeyGaps == {5, 50, 300, 6000}

\* Backspace and one other key.
KeyCodes == {VK_BACK, 65}

\* main.rs:130: the handle of the overlay window, once created.
overlay_hwnd == 1

\* The mutexes of keyboard.rs.
Statics == {"HOOK_HANDLE", "LAST_KEY_TIME", "BACKSPACE_TIMES",
            "LAST_BACKSPACE_PRESS", "HMM_INSTANCE", "LAST_STATE"}

\* A panic inside an extern "system" fn aborts the process, or unwinds out
\* of the callback, depending on the toolchain.
PanicBuilds == {"abort", "unwind"}

\* keyboard.rs:67-73: entries 5 whole seconds old leave the front.
RECURSIVE prune(_, _)
prune(times, current_time) ==
    IF times # << >> /\ (current_time - Head(times)) \div 1000 >= 5
    THEN prune(Tail(times), current_time)
    ELSE times

\* keyboard.rs:93-99
count_backspaces(times, current_time) == Len(times)

\* The backspace presses of the 5 seconds before current_time.
recent_presses(current_time) ==
    Cardinality({t \in presses : (current_time - t) \div 1000 < 5})

\* expect() or unwrap() on a poisoned mutex: the invocation ends in a panic
\* and does not reach CallNextHookEx.
Panic(rec, build) ==
    [rec EXCEPT !.next_hook = 0, !.panicked = TRUE,
                !.halted = (build = "abort")]

\* keyboard.rs:192-199
CallNext(rec, build) ==
    IF "HOOK_HANDLE" \in kpoisoned THEN Panic(rec, build)
    ELSE [rec EXCEPT !.next_hook = 1, !.panicked = FALSE]

\* Variant: the overlay is updated at every processed key.
state_changed_always(last_state, state) == TRUE

\* keyboard.rs:144, 159, 174
state_changed(last_state, state) == last_state # Some(state)

\* main.rs:26-34 with overlay.rs:123-147: the appearance of the window after
\* update_overlay_from_state(state); ok is SetLayeredWindowAttributes'
\* success.
overlay_after(state, ok) ==
    IF HWND_OVERLAY_STATIC # 0 /\ ok THEN Some(appearance(state))
    ELSE overlay

\* keyboard.rs:55-80
BackspaceDown(current_time, build) ==
    LET times_ok == "BACKSPACE_TIMES" \notin kpoisoned
        press_ok == "LAST_BACKSPACE_PRESS" \notin kpoisoned
    IN  /\ BACKSPACE_TIMES' =
              IF times_ok
              THEN prune(Append(BACKSPACE_TIMES, current_time), current_time)
              ELSE BACKSPACE_TIMES
        /\ LAST_BACKSPACE_PRESS' =
              IF times_ok /\ press_ok THEN Some(current_time)
              ELSE LAST_BACKSPACE_PRESS
        /\ presses' = presses \cup {current_time}
        /\ kb' = CallNext([kb EXCEPT !.keys = @ + 1, !.event = "keydown",
                                     !.processed = FALSE], build)
        /\ UNCHANGED <<state_probs, LAST_KEY_TIME, LAST_STATE, overlay, ov,
                       kpoisoned>>

\* keyboard.rs:81-188
RegularKeyDown(current_time, ok, build) ==
    LET seen_key == [kb EXCEPT !.keys = @ + 1, !.event = "keydown",
                               !.processed = FALSE]
    IN  /\ UNCHANGED <<BACKSPACE_TIMES, LAST_BACKSPACE_PRESS, presses>>
        /\ IF "LAST_KEY_TIME" \in kpoisoned
           THEN /\ kb' = Panic(seen_key, build)
                /\ UNCHANGED <<state_probs, LAST_KEY_TIME, LAST_STATE,
                               overlay, ov, kpoisoned>>
           ELSE IF /\ LAST_KEY_TIME # None
                   /\ current_time - LAST_KEY_TIME[1]
                         >= MIN_FLIGHT_TIME_FOR_INPUT
           THEN IF "HMM_INSTANCE" \in kpoisoned
                THEN /\ kb' = Panic(seen_key, build)
                     /\ kpoisoned' = IF build = "unwind"
                                     THEN kpoisoned \cup {"LAST_KEY_TIME"}
                                     ELSE kpoisoned
                     /\ UNCHANGED <<state_probs, LAST_KEY_TIME, LAST_STATE,
                                    overlay, ov>>
                ELSE
                LET flight_time_ms == current_time - LAST_KEY_TIME[1]
                    backspace_count ==
                        IF "BACKSPACE_TIMES" \in kpoisoned THEN 0
                        ELSE count_backspaces(BACKSPACE_TIMES, current_time)
                    pause_after_delete_ms_opt ==
                        IF \/ "LAST_BACKSPACE_PRESS" \in kpoisoned
                           \/ LAST_BACKSPACE_PRESS = None
                        THEN None
                        ELSE Some(current_time - LAST_BACKSPACE_PRESS[1])
                    hesitation ==
                        /\ pause_after_delete_ms_opt # None
                        /\ pause_after_delete_ms_opt[1] >= 2000
                    backspace_count_for_hmm ==
                        backspace_count + (IF hesitation THEN 1 ELSE 0)
                    hmm_state == most_likely_state(state_probs')
                    shown == /\ "LAST_STATE" \notin kpoisoned
                             /\ state_changed(LAST_STATE, hmm_state)
                IN  /\ state_probs' = hmm_update(state_probs, flight_time_ms,
                                                 backspace_count_for_hmm)
                    /\ LAST_STATE' = IF shown THEN Some(hmm_state)
                                     ELSE LAST_STATE
                    /\ overlay' = IF shown THEN overlay_after(hmm_state, ok)
                                  ELSE overlay
                    /\ ov' = IF shown
                             THEN [ov EXCEPT
                                     !.calls = Append(@, hmm_state),
                                     !.failed = (overlay' # Some(appearance(hmm_state)))]
                             ELSE ov
                    /\ LAST_KEY_TIME' = Some(current_time)
                    /\ kb' = CallNext(
                          [keys |-> kb.keys + 1,
                           op |-> "key",
                           flight_time_ms |-> flight_time_ms,
                           backspace_count |-> backspace_count,
                           pause_after_delete_ms |-> pause_after_delete_ms_opt,
                           rule_state |->
                               classify_state(flight_time_ms, backspace_count,
                                              pause_after_delete_ms_opt),
                           hmm_count |-> backspace_count_for_hmm,
                           hmm_state |-> hmm_state,
                           recent |-> recent_presses(current_time),
                           event |-> "keydown",
                           processed |-> TRUE,
                           next_hook |-> 0,
                           panicked |-> FALSE,
                           halted |-> FALSE], build)
                    /\ UNCHANGED kpoisoned
           ELSE /\ LAST_KEY_TIME' = Some(current_time)
                /\ kb' = CallNext(seen_key, build)
                /\ UNCHANGED <<state_probs, LAST_STATE, overlay, ov,
                               kpoisoned>>

\* keyboard.rs:42-200, for a WM_KEYDOWN with n_code >= 0.
KeyDown(vk_code, gap, ok, build) ==
    /\ ov.started /\ ~kb.halted
    /\ kb.keys < MaxKeys
    /\ clock' = clock + gap
    /\ IF vk_code = VK_BACK THEN BackspaceDown(clock', build)
                            ELSE RegularKeyDown(clock', ok, build)
    /\ UNCHANGED HWND_OVERLAY_STATIC
    /\ UNCHANGED <<evars, svars, tvars, ivars, hvars>>

\* keyboard.rs:42-200, for n_code < 0 or a message other than WM_KEYDOWN.
OtherEvent(build) ==
    /\ ov.started /\ ~kb.halted
    /\ kb' = CallNext([kb EXCEPT !.event = "other", !.processed = FALSE],
                      build)
    /\ UNCHANGED <<state_probs, BACKSPACE_TIMES, LAST_KEY_TIME,
                   LAST_BACKSPACE_PRESS, clock, presses>>
    /\ UNCHANGED ovars
    /\ UNCHANGED <<evars, svars, tvars, ivars, hvars>>

\* main.rs:128-137: create_overlay_window succeeds, leaving the window fully
\* transparent (overlay.rs:60), or fails; then the message loop starts.
MainCreateOverlay(ok) ==
    /\ ~ov.started
    /\ HWND_OVERLAY_STATIC' = IF ok THEN overlay_hwnd ELSE 0
    /\ overlay' = IF ok THEN Some(<<0, 0>>) ELSE None
    /\ ov' = [ov EXCEPT !.started = TRUE]
    /\ UNCHANGED <<LAST_STATE, kpoisoned>>
    /\ UNCHANGED lvars
    /\ UNCHANGED <<evars, svars, tvars, ivars, hvars>>

KeyboardNext ==
    \/ \E ok \in BOOLEAN : MainCreateOverlay(ok)
    \/ \E vk_code \in KeyCodes, gap \in KeyGaps, ok \in BOOLEAN :
          KeyDown(vk_code, gap, ok, "abort")

KeyboardSpec == Init /\ [][KeyboardNext]_vars

----------------------------------------------------------------------------
(* State machine of the legacy keyboard hook when mutexes of keyboard.rs   *)
(* have been poisoned before the message loop starts.                      *)

\* Gaps between key-downs in this specification.
PoisonGaps == {50, 6000}

\* A holder of the mutex has panicked.
PoisonStatic(m) ==
    /\ ~ov.started
    /\ m \notin kpoisoned
    /\ Cardinality(kpoisoned) < MaxPoisoned
    /\ kpoisoned' = kpoisoned \cup {m}
    /\ UNCHANGED <<LAST_STATE, HWND_OVERLAY_STATIC, overlay, ov>>
    /\ UNCHANGED lvars
    /\ UNCHANGED <<evars, svars, tvars, ivars, hvars>>

PoisonNext ==
    \/ \E m \in Statics : PoisonStatic(m)
    \/ \E ok \in BOOLEAN : MainCreateOverlay(ok)
    \/ \E vk_code \in KeyCodes, gap \in PoisonGaps, ok \in BOOLEAN,
          build \in PanicBuilds : KeyDown(vk_code, gap, ok, build)
    \/ \E build \in PanicBuilds : OtherEvent(build)

PoisonSpec == Init /\ [][PoisonNext]_vars

----------------------------------------------------------------------------
(* State machine of IME detection.  win_event_callback runs on the hook    *)
(* thread; is_candidate_window_open and is_ime_active run on the polling   *)
(* thread, and the load at ime.rs:55 and the store at ime.rs:95 are two    *)
(* steps.  The IME itself is the environment: events may come late or not  *)
(* at all.                                                                 *)

\* The three events the callback names, and one it does not.
WinEvents == {EVENT_OBJECT_IME_CHANGE, EVENT_OBJECT_IME_SHOW,
              EVENT_OBJECT_IME_HIDE, 0}

\* The user types into the IME: the romaji-to-hiragana phase begins.
StartComposition ==
    /\ ~composing
    /\ composing' = TRUE
    /\ ime' = [ime EXCEPT !.op = "environment"]
    /\ UNCHANGED <<IME_ACTIVE, candidate_visible, uia_found>>
    /\ UNCHANGED <<evars, svars, tvars, lvars, ovars, hvars>>

\* The candidate list appears.
ShowCandidates ==
    /\ composing /\ ~candidate_visible
    /\ candidate_visible' = TRUE
    /\ ime' = [ime EXCEPT !.op = "environment"]
    /\ UNCHANGED <<IME_ACTIVE, uia_found, composing>>
    /\ UNCHANGED <<evars, svars, tvars, lvars, ovars, hvars>>

\* The focus moves onto, or away from, an element UIAutomation reports as
\* part of the IME.  With no IUIAutomation (ime.rs:38-40) this never shows.
FocusChange ==
    /\ uia_found' = (composing /\ ~uia_found)
    /\ uia_found' # uia_found
    /\ ime' = [ime EXCEPT !.op = "environment"]
    /\ UNCHANGED <<IME_ACTIVE, candidate_visible, composing>>
    /\ UNCHANGED <<evars, svars, tvars, lvars, ovars, hvars>>

\* The composition is confirmed or cancelled, or its window goes away.
EndComposition ==
    /\ composing
    /\ composing' = FALSE
    /\ candidate_visible' = FALSE
    /\ uia_found' = FALSE
    /\ ime' = [ime EXCEPT !.op = "environment"]
    /\ UNCHANGED IME_ACTIVE
    /\ UNCHANGED <<evars, svars, tvars, lvars, ovars, hvars>>

\* hook.rs:57-77
WinEventCallback(event) ==
    /\ IME_ACTIVE' = IF event_store(event) = None THEN IME_ACTIVE
                     ELSE event_store(event)[1]
    /\ ime' = [ime EXCEPT
                 !.op = "win_event_callback",
                 !.event = event,
                 !.event_stored = IF event_store(event) = None THEN @
                                  ELSE event_store(event)[1],
                 !.last_stored = IF event_store(event) = None THEN @
                                 ELSE event_store(event)[1],
                 !.stale_reset = IF event_store(event) = Some(TRUE)
                                 THEN FALSE ELSE @]
    /\ UNCHANGED <<candidate_visible, uia_found, composing>>
    /\ UNCHANGED <<evars, svars, tvars, lvars, ovars, hvars>>

\* hook.rs:33-35
IsImeActive ==
    /\ ime.pc = "idle"
    /\ ime' = [ime EXCEPT !.op = "is_ime_active", !.ret = IME_ACTIVE]
    /\ UNCHANGED <<IME_ACTIVE, candidate_visible, uia_found, composing>>
    /\ UNCHANGED <<evars, svars, tvars, lvars, ovars, hvars>>

\* ime.rs:55
OpenLoad ==
    /\ ime.pc = "idle"
    /\ ime' = [ime EXCEPT !.pc = "loaded", !.op = "load",
                          !.winevent_active = IME_ACTIVE]
    /\ UNCHANGED <<IME_ACTIVE, candidate_visible, uia_found, composing>>
    /\ UNCHANGED <<evars, svars, tvars, lvars, ovars, hvars>>

\* ime.rs:62-99
OpenReturn ==
    /\ ime.pc = "loaded"
    /\ LET winevent_active == ime.winevent_active
           enumwindows_active == candidate_visible
           uia_active == uia_found
           stale == is_stale(winevent_active, enumwindows_active, uia_active)
       IN  /\ IME_ACTIVE' = IF stale THEN FALSE ELSE IME_ACTIVE
           /\ ime' = [ime EXCEPT
                        !.pc = "idle",
                        !.op = "is_candidate_window_open",
                        !.enumwindows_active = enumwindows_active,
                        !.uia_active = uia_active,
                        !.ret = IF stale THEN FALSE
                                ELSE \/ winevent_active
                                     \/ enumwindows_active
                                     \/ uia_active,
                        !.last_stored = IF stale THEN FALSE ELSE @,
                        !.stale_reset = IF stale THEN TRUE ELSE @]
    /\ UNCHANGED <<candidate_visible, uia_found, composing>>
    /\ UNCHANGED <<evars, svars, tvars, lvars, ovars, hvars>>

ImeNext ==
    \/ StartComposition
    \/ ShowCandidates
    \/ FocusChange
    \/ EndComposition
    \/ \E event \in WinEvents : WinEventCallback(event)
    \/ IsImeActive
    \/ OpenLoad
    \/ OpenReturn

ImeSpec == Init /\ [][ImeNext]_vars

----------------------------------------------------------------------------
(* State machine of hook_callback.  It runs on the hook thread, whenever   *)
(* Windows delivers a keyboard message; init_hook on another thread takes  *)
(* the sender's mutex; the receiver drains the channel or goes away.       *)

\* Codes handed to the hook: HC_ACTION, HC_NOREMOVE, and a negative one.
HookCodes == {-1, 0, 3}

\* The four key messages and one that is none of them.
HookMessages == KeyMessages \cup {"WM_MOUSEMOVE"}

\* hook.rs:82
InitHookLock ==
    /\ EVENT_SENDER.lock = "free"
    /\ EVENT_SENDER' = [EVENT_SENDER EXCEPT !.lock = "held"]
    /\ UNCHANGED <<channel, hc>>
    /\ UNCHANGED <<evars, svars, tvars, lvars, ivars, ovars>>

\* hook.rs:83-84
InitHookStore ==
    /\ EVENT_SENDER.lock = "held"
    /\ EVENT_SENDER' = [lock |-> "free", sender |-> Some("sender")]
    /\ UNCHANGED <<channel, hc>>
    /\ UNCHANGED <<evars, svars, tvars, lvars, ivars, ovars>>

\* The holder of the sender's mutex panics.
PoisonSender ==
    /\ EVENT_SENDER.lock = "held"
    /\ EVENT_SENDER' = [EVENT_SENDER EXCEPT !.lock = "poisoned"]
    /\ UNCHANGED <<channel, hc>>
    /\ UNCHANGED <<evars, svars, tvars, lvars, ivars, ovars>>

\* The receiver takes the oldest event.
Receive ==
    /\ channel.connected /\ channel.queue # << >>
    /\ channel' = [channel EXCEPT !.queue = Tail(@)]
    /\ UNCHANGED <<EVENT_SENDER, hc>>
    /\ UNCHANGED <<evars, svars, tvars, lvars, ivars, ovars>>

\* The receiver is dropped.
Disconnect ==
    /\ channel.connected
    /\ channel' = [queue |-> << >>, connected |-> FALSE]
    /\ UNCHANGED <<EVENT_SENDER, hc>>
    /\ UNCHANGED <<evars, svars, tvars, lvars, ivars, ovars>>

\* hook.rs:147-176
HookCallback(code, wparam, vk_code) ==
    LET event_type == wparam
        event == [vk_code |-> vk_code, is_press |-> is_press(event_type)]
        locked == try_lock(EVENT_SENDER.lock)
        outcome ==
            IF ~(code >= 0 /\ (is_press(event_type) \/ is_release(event_type)))
            THEN "ignored"
            ELSE IF locked = "wait" THEN "wait"
            ELSE IF locked = "err" THEN "lock_err"
            ELSE IF EVENT_SENDER.sender = None THEN "no_sender"
            ELSE IF try_send(channel, event) = channel THEN "send_err"
            ELSE "sent"
    IN  /\ channel' = IF outcome = "sent" THEN try_send(channel, event)
                      ELSE channel
        /\ hc' = [n |-> 1 - hc.n, code |-> code, msg |-> wparam,
                  calls_next |-> IF outcome = "wait" THEN 0 ELSE 1,
                  outcome |-> outcome,
                  waited |-> outcome = "wait"]
        /\ UNCHANGED EVENT_SENDER
        /\ UNCHANGED <<evars, svars, tvars, lvars, ivars, ovars>>

HookCbNext ==
    \/ InitHookLock
    \/ InitHookStore
    \/ PoisonSender
    \/ Receive
    \/ Disconnect
    \/ \E code \in HookCodes, wparam \in HookMessages, vk_code \in KeyCodes :
          HookCallback(code, wparam, vk_code)

HookCbSpec == Init /\ [][HookCbNext]_vars

----------------------------------------------------------------------------
(* Properties.                                                             *)

Applied == last.op = "update" /\ ~last.skipped

AppliedNext == last'.op = "update" /\ ~last'.skipped

BeliefScoreStreak == <<current_state_probs, s_stuck_ewma, backspace_streak>>

\* C1: after every update that is not skipped, each of the three belief
\* components lies in [0, 1] and the components sum to 1 (to within the one
\* unit that rounding three quotients to the nearest 1/Scale can lose).
C1_BeliefNormalized ==
    Applied =>
        /\ \A j \in 1..n_states :
              current_state_probs[j] >= 0 /\ current_state_probs[j] <= Scale
        /\ Sum3(current_state_probs) >= Scale - 1
        /\ Sum3(current_state_probs) <= Scale + 1

\* A non-skipped update has moved the belief from Flow-dominant to
\* Stuck-dominant, and the vector is still normalised.
C1_Witness ==
    /\ Applied
    /\ current_state_probs[3] > current_state_probs[1]
    /\ current_state_probs[3] < Scale
    /\ Sum3(current_state_probs) = Scale

\* C2: an update whose unnormalised posterior mass is zero leaves the stored
\* belief as it was.  (With the fixed tables no reachable update has zero
\* mass, so the property has no instance: see C2_NeverDegenerate.)
C2_DegenerateRetainsPrior ==
    [][(AppliedNext /\ last'.degenerate)
          => current_state_probs' = current_state_probs]_vars

\* C2, reachability of its case: no update ever sees zero posterior mass.
C2_NeverDegenerate == ~last.degenerate

\* C3: an update call made while the pause flag is set, whatever its
\* features and key code, leaves belief, EWMA and backspace streak unchanged.
C3_PausedUpdateIsNoOp ==
    [][(is_paused /\ last'.op = "update")
          => /\ last'.skipped
             /\ BeliefScoreStreak' = BeliefScoreStreak]_vars

\* A paused update carrying backspace and valid features was skipped while
\* the engine had a non-trivial streak and score.
C3_Witness ==
    /\ last.op = "update" /\ last.skipped /\ ~last.nodata /\ is_paused
    /\ last.vk_code = Some(VK_BACK)
    /\ backspace_streak >= 2
    /\ s_stuck_ewma > 0
\* C4: force_flow_state, paused or not and whatever happened before, leaves
\* the belief at exactly [0.98, 0.01, 0.01] and the EWMA at exactly 0; and
\* the first non-skipped update after it blends its raw score with 0 and
\* takes its forward step from [0.98, 0.01, 0.01].
C4_ForceFlowResets ==
    [][/\ last'.op = "force_flow_state"
            => /\ current_state_probs' = Fix(<<98, 1, 1>>)
               /\ s_stuck_ewma' = 0
       /\ (at_baseline /\ AppliedNext)
            => /\ \E features \in FeatureSet :
                     /\ features.f1 > 0
                     /\ s_stuck_ewma' = ewma_step(0, calculate_s_stuck(features))
               /\ current_state_probs'
                     = forward_step(Fix(<<98, 1, 1>>), last'.obs[1])]_vars

\* After a history of backspaces a forced reset happened, and the first
\* non-skipped update after it has been applied.
C4_Witness ==
    /\ Applied /\ last.from_baseline
    /\ applied_run >= 3
    /\ s_stuck_ewma > 0
    /\ current_state_probs # Fix(<<98, 1, 1>>)

\* C5: force_flow_state leaves the pause flag and the backspace streak
\* unchanged; so a streak of 5 or more that was there at the reset forces
\* observation 10 on the next non-skipped update that carries no key code
\* or a backspace.
C5_ForceFlowKeepsStreak ==
    [][/\ last'.op = "force_flow_state"
            => /\ is_paused' = is_paused
               /\ backspace_streak' = backspace_streak
       /\ (/\ at_baseline /\ backspace_streak >= 5 /\ AppliedNext
           /\ last'.vk_code \in {None, Some(VK_BACK)})
            => last'.obs = Some(10)]_vars

\* The first non-skipped update after a reset carried no key code and was
\* given observation 10 although its smoothed score falls in a low bin.
C5_Witness ==
    /\ Applied /\ last.from_baseline
    /\ last.vk_code = None
    /\ last.obs = Some(10)
    /\ backspace_streak >= 5
    /\ score_bin(s_stuck_ewma) < 5

\* C6: an update whose f1_flight_time_median is <= 0 is skipped: belief,
\* EWMA, backspace streak (and the pause flag) are unchanged, whether the
\* key code is backspace or another key.
C6_NoDataUpdateIsNoOp ==
    [][(last'.op = "update" /\ last'.nodata)
          => /\ last'.skipped
             /\ BeliefScoreStreak' = BeliefScoreStreak
             /\ is_paused' = is_paused]_vars

\* An unpaused update with a flight time of zero or less carried a key other
\* than backspace and left a running streak in place.
C6_Witness ==
    /\ last.op = "update" /\ last.nodata /\ last.skipped /\ ~is_paused
    /\ last.vk_code = Some(65)
    /\ backspace_streak >= 2

\* C7: a non-skipped update adds one to the streak for Some(0x08), sets it
\* to 0 for any other Some(k), and leaves it unchanged for None.
C7_StreakStep ==
    [][AppliedNext
          => backspace_streak' =
                IF last'.vk_code = <<8>> THEN backspace_streak + 1
                ELSE IF Len(last'.vk_code) = 1 THEN 0
                ELSE backspace_streak]_vars

\* A non-skipped update without a key code left a streak of three or more in
\* place.
C7_Witness ==
    /\ Applied /\ last.vk_code = None
    /\ backspace_streak >= 3

\* C8: in a non-skipped update the observation symbol is 10 if the streak
\* after the update is >= 5, and min(floor(ewma * 10), 10) of the freshly
\* smoothed score otherwise.
C8_ObservationSymbol ==
    Applied =>
        last.obs = IF backspace_streak >= 5
                   THEN <<10>>
                   ELSE <<Min((s_stuck_ewma * 10) \div Scale, 10)>>

\* The fourth backspace in a row was given the bin of its score, which is
\* below 10.
C8_Witness ==
    /\ Applied /\ last.vk_code = Some(VK_BACK)
    /\ backspace_streak = 4
    /\ last.obs # Some(10)
    /\ last.obs = Some((s_stuck_ewma * 10) \div Scale)

\* C9 as stated: once five update calls in a row (calls without a key code
\* aside) carried backspace, a non-skipped backspace update is given
\* observation 10.
C9_AsStated ==
    (Applied /\ last.vk_code = Some(VK_BACK) /\ delivered_run >= 5)
        => last.obs = Some(10)

\* C9, amended: once five NON-SKIPPED updates in a row (updates without a
\* key code aside) carried backspace, the fifth and every later such
\* backspace update is given observation 10, whatever the score.
C9_StreakOverride ==
    (Applied /\ last.vk_code = Some(VK_BACK) /\ applied_run >= 5)
        => last.obs = Some(10)

\* The sixth applied backspace in a row was given observation 10 with a
\* smoothed score in a low bin.
C9_Witness ==
    /\ Applied /\ last.vk_code = Some(VK_BACK)
    /\ applied_run = 6
    /\ last.obs = Some(10)
    /\ score_bin(s_stuck_ewma) < 5

\* C10 as stated: the streak equals the number of consecutive backspace
\* codes most recently delivered to update, skipped calls included.
C10_AsStated == backspace_streak = delivered_run

\* C10, amended: the streak equals the number of consecutive backspace codes
\* most recently delivered to NON-SKIPPED updates (zero if the last key code
\* such an update received was not backspace), through every sequence of
\* update, set_paused and force_flow_state calls.
C10_StreakCountsApplied == backspace_streak = applied_run

\* A streak of five stands after a forced reset although the keys delivered
\* last, in skipped calls, were not backspaces.
C10_Witness ==
    /\ backspace_streak >= 5
    /\ applied_run = backspace_streak
    /\ delivered_run = 0
    /\ at_baseline
Abs(x) == IF x < 0 THEN 0 - x ELSE x

\* C11: a freshly constructed engine has belief [0.7, 0.2, 0.1], pause flag
\* false, backspace streak 0 and EWMA 0, and get_current_state called on it
\* reports Flow with probability >= 0.5, above both other states.
C11_FreshEngine ==
    [][last.op = "new"
          => /\ current_state_probs = Fix(<<70, 20, 10>>)
             /\ ~is_paused
             /\ backspace_streak = 0
             /\ s_stuck_ewma = 0
             /\ last'.op = "get_current_state"
                  => LET map == last'.ret[1]
                     IN  /\ 2 * map["Flow"] >= Scale
                         /\ map["Flow"] > map["Incubation"]
                         /\ map["Flow"] > map["Stuck"]]_vars

\* get_current_state has been called on an engine that has seen no applied
\* update, no reset and no pause, and reported the initial prior.
C11_Witness ==
    /\ last.op = "get_current_state"
    /\ last.ret[1]["Flow"] = Fix(<<70, 20, 10>>)[1]
    /\ current_state_probs = Fix(<<70, 20, 10>>)
    /\ s_stuck_ewma = 0 /\ backspace_streak = 0 /\ ~is_paused
    /\ ~at_baseline /\ frozen = None

\* C12: get_current_state and get_paused change no engine state: belief,
\* EWMA, streak and pause flag are the same after the call as before it.
C12_QueriesArePure ==
    [][last'.op \in {"get_current_state", "get_paused"}
          => /\ BeliefScoreStreak' = BeliefScoreStreak
             /\ is_paused' = is_paused]_vars

\* get_paused was called on a paused engine with history, and the flag is
\* still set.
C12_Witness ==
    /\ last.op = "get_paused" /\ last.ret = Some(TRUE)
    /\ is_paused
    /\ backspace_streak >= 2 /\ s_stuck_ewma > 0

\* C13: a get_current_state call that races a writer returns one whole
\* belief vector: the one current when the call began or one that update or
\* force_flow_state stored while the call was in progress; never a mix of
\* components of two vectors.
C13_NoTornRead ==
    (ret # None /\ ret[1].op = "get_current_state") => ret[1].value \in seen

C13_Witness ==
    /\ ret # None /\ ret[1].op = "get_current_state"
    /\ pc["ui"] = Idle
    /\ Cardinality(seen) >= 2
    /\ ret[1].value \in seen

\* C14, as stated: update never waits for a lock that a get_current_state
\* or get_paused caller holds.
C14_WriterNeverWaits ==
    \A m \in Mutexes : ~(pc["hook"] = <<"lock", m>> /\ lock[m] = "ui")

\* C15: with a poisoned mutex no call panics, and every critical section
\* leaves the protected value, and hands its caller the value, that the
\* arm for an unpoisoned mutex would.
C15_PoisonRecovered ==
    [][ /\ \A t \in Threads : pc'[t] # Panicked
        /\ (pc["hook"] = <<"held", "paused">> /\ pc'["hook"] # pc["hook"])
              => pc'["hook"] = IF is_paused \/ wl.features.f1 <= 0 THEN Idle
                               ELSE <<"lock", "streak">>
        /\ (pc["hook"] = <<"held", "streak">> /\ pc'["hook"] # pc["hook"])
              => /\ backspace_streak'
                      = streak_step(backspace_streak, wl.vk_code)
                 /\ wl'.streak = backspace_streak'
        /\ (pc["hook"] = <<"held", "ewma">> /\ pc'["hook"] # pc["hook"])
              => /\ s_stuck_ewma'
                      = ewma_step(s_stuck_ewma, calculate_s_stuck(wl.features))
                 /\ wl'.s_stuck = s_stuck_ewma'
        /\ (pc["hook"] = <<"held", "probs">> /\ pc'["hook"] # pc["hook"])
              => current_state_probs'
                   = forward_step(current_state_probs,
                                  observation(wl.s_stuck, wl.streak))
        /\ (pc["ui"] = <<"held", "paused">> /\ pc'["ui"] # pc["ui"])
              => ret' = Some([op |-> "get_paused", value |-> is_paused])
        /\ (pc["ui"] = <<"held", "probs">> /\ pc'["ui"] # pc["ui"])
              => ret' = Some([op |-> "get_current_state",
                              value |-> current_state_probs])
        /\ (pc["ime"] = <<"held", "paused">> /\ pc'["ime"] # pc["ime"])
              => is_paused' = kl[1]
        /\ (pc["ime"] = <<"held", "probs">> /\ pc'["ime"] # pc["ime"])
              => current_state_probs' = flow_probs
        /\ (pc["ime"] = <<"held", "ewma">> /\ pc'["ime"] # pc["ime"])
              => s_stuck_ewma' = 0
      ]_vars

C15_Witness ==
    /\ "streak" \in poisoned
    /\ "streak" \in wl.err_arms
    /\ pc["hook"] = Idle
    /\ wl.vk_code = Some(VK_BACK)
    /\ backspace_streak = 2

\* C16: whenever no call is in progress on the capture thread or the IME
\* thread, and no update has overlapped a set_paused or force_flow_state
\* call, belief, EWMA, streak and flag are what the calls made so far give
\* when run one at a time in the order they were made.
C16_DeliveryOrder ==
    (ref # None /\ pc["hook"] = Idle /\ pc["ime"] = Idle)
        => EngineState = ref[1]

C16_Witness ==
    /\ ref # None /\ pc["hook"] = Idle /\ pc["ime"] = Idle
    /\ calls["hook"] = 3
    /\ backspace_streak = 1
    /\ s_stuck_ewma > 0
    /\ current_state_probs # initial_probs
    /\ EngineState = ref[1]

\* C22, as stated: no backspace update panics, and none leaves the streak
\* counter at a smaller value than it found.
C22_StreakNeverWraps ==
    [][ /\ pc'["hook"] # Panicked
        /\ (AppliedNext /\ last'.vk_code = Some(VK_BACK))
              => \/ backspace_streak' = backspace_streak
                 \/ u32_lt(backspace_streak, backspace_streak')
      ]_vars

\* Smoothed scores outside [0, 1]: negative, not a number, 1.0 and above.
ScoreProbes ==
    {NaN, 0 - 5 * Scale, 0 - 1, Scale, Scale + 1, 2 * Scale, 1000 * Scale}
        \cup (0 .. Scale)

\* C21: the observation symbol is within 0..10 for every smoothed score
\* (negative, above 1 and NaN included) and every streak, so every index
\* update computes into the emission table and the transition table is
\* inside the table.
C21_IndicesInRange ==
    /\ \A s \in ScoreProbes, streak \in 0 .. MaxStreak :
          LET obs == observation(s, streak)
          IN  /\ obs \in 0 .. 10
              /\ \A j \in 0 .. n_states - 1 :
                    /\ j * n_obs + obs + 1 \in DOMAIN emissions
                    /\ \A i \in 0 .. n_states - 1 :
                          i * n_states + j + 1 \in DOMAIN transitions
    /\ Applied => /\ last.obs # None
                  /\ last.obs[1] \in 0 .. 10
                  /\ last.obs[1] = observation(s_stuck_ewma, backspace_streak)

C21_Witness ==
    /\ Applied
    /\ last.obs = Some(10)
    /\ backspace_streak >= 5
    /\ score_bin(s_stuck_ewma) < 10

\* C23: symbol 10 belongs to the streak override.  With a streak below 5
\* every smoothed score below 1.0 gives a symbol of at most 9; the smoothed
\* score of raw scores in [0, 1] stays in [0, 1]; and an applied update
\* with a streak below 5 uses symbol 10 only with the smoothed score at 1.0.
C23_Bin10Reserved ==
    /\ \A s \in 0 .. Scale - 1, streak \in 0 .. 4 : observation(s, streak) <= 9
    /\ s_stuck_ewma \in 0 .. Scale
    /\ (Applied /\ u32_lt(backspace_streak, 5) /\ last.obs = Some(10))
          => s_stuck_ewma = Scale
    /\ Applied => last.raw \in 0 .. Scale

C23_Witness ==
    /\ Applied
    /\ u32_lt(backspace_streak, 5)
    /\ last.obs # None /\ last.obs[1] \in 7 .. 9
    /\ s_stuck_ewma < Scale

\* C24: backspace storm.  From a fresh engine fed backspace updates only,
\* the 5th and the 6th applied update use observation 10, and the Stuck
\* probability after the 5th is strictly greater than after the 4th, and
\* after the 6th strictly greater than after the 5th.
C24_BackspaceStorm ==
    [][ (AppliedNext /\ backspace_streak' = backspace_streak + 1
                     /\ backspace_streak' \in {5, 6})
          => /\ last'.obs = Some(10)
             /\ current_state_probs'[3] > current_state_probs[3]
      ]_vars

C24_Witness ==
    /\ Applied
    /\ backspace_streak = 6 /\ applied_run = 6
    /\ last.obs = Some(10)
    /\ current_state_probs[3] > current_state_probs[1] + current_state_probs[2]

\* C25: classify_state follows its decision table.  A pause after delete
\* of 2000 ms or more gives Stuck whatever the other inputs; otherwise a
\* flight time above 500 ms or more than 5 backspaces gives Stuck; otherwise
\* a flight time below 100 ms with fewer than 2 backspaces gives Flow;
\* otherwise Incubation.  With no pause it agrees with the two-argument
\* mirror of the integration tests, (0, 0) is Flow, and the state
\* keyboard_proc obtains for a key is the table's row for its inputs.
RuleFlights == {0, 50, 99, 100, 101, 300, 500, 501, 10000}

RuleCounts == {0, 1, 2, 3, 5, 6, 100}

RulePauses == {None, Some(0), Some(1999), Some(2000), Some(2001), Some(6000)}

RuleTable(flight_time_ms, backspace_count, pause_after_delete_ms) ==
    CASE pause_after_delete_ms \in {Some(2000), Some(2001), Some(6000)}
            -> "Stuck"
      [] OTHER ->
         CASE flight_time_ms \in {501, 10000} \/ backspace_count \in {6, 100}
                 -> "Stuck"
           [] OTHER ->
              IF flight_time_ms \in {0, 50, 99} /\ backspace_count \in {0, 1}
              THEN "Flow" ELSE "Incubation"

C26_LegacyNormalised ==
    /\ \A j \in 1..3 : state_probs[j] >= 0 /\ state_probs[j] <= Scale
    /\ Sum3(state_probs) >= Scale - 1
    /\ Sum3(state_probs) <= Scale + 1
    /\ LET thirds == hmm_normalize(<< <<0, 0>>, <<0, 0>>, <<0, 0>> >>)
       IN  /\ thirds[1] = thirds[2] /\ thirds[2] = thirds[3]
           /\ Sum3(thirds) >= Scale - 1
           /\ Sum3(thirds) <= Scale + 1
    /\ \A f \in HmmFlights, b \in HmmCounts :
          \A idx \in 1..3 :
             LET p == calculate_observation_probs(f, b)[idx]
             IN  p # FNaN /\ p[1] > 0

\* update has run on a flight time that is not a number with 100 backspaces,
\* where every likelihood is the clamp, and the belief is spread over all
\* three states.
C26_Witness ==
    /\ kb.op = "update"
    /\ kb.flight_time_ms = NaN
    /\ kb.hmm_count = 100
    /\ \A j \in 1..3 : state_probs[j] > 0 /\ state_probs[j] < Scale

\* C27, as stated: at every regular key keyboard_proc processes, the
\* backspace count handed to classify_state, and the part of the HMM's count
\* that is not the hesitation signal, is the number of backspace presses of
\* the preceding 5 seconds.
C27_FiveSecondWindow ==
    kb.op = "key" =>
       /\ kb.backspace_count = kb.recent
       /\ kb.hmm_count \in {kb.recent, kb.recent + 1}

\* C28, as stated: is_candidate_window_open returns true whenever the flag
\* it loads from IME_ACTIVE is true, the composition phase with no candidate
\* window and nothing found by UIAutomation included.
C28_ActiveMeansOpen ==
    (ime.op = "is_candidate_window_open" /\ ime.winevent_active)
       => ime.ret = TRUE

C31_NeverBlocksAlwaysForwards ==
    [][ hc'.n # hc.n =>
          /\ hc'.calls_next = 1
          /\ ~hc'.waited
          /\ EVENT_SENDER' = EVENT_SENDER
          /\ hc'.outcome = "sent" <=>
                /\ hc'.code >= 0
                /\ hc'.msg \in KeyMessages
                /\ EVENT_SENDER.lock = "free"
                /\ EVENT_SENDER.sender # None
                /\ channel.connected
                /\ Len(channel.queue) < ChannelCap
          /\ IF hc'.outcome = "sent"
             THEN /\ Len(channel'.queue) = Len(channel.queue) + 1
                  /\ channel'.queue[Len(channel'.queue)].is_press
                        = (hc'.msg \in {"WM_KEYDOWN", "WM_SYSKEYDOWN"})
             ELSE channel' = channel
      ]_vars

\* A key-down with code 0 found the sender installed and its mutex free, but
\* the channel full: the event was dropped and the next hook was called.
C31_Witness ==
    /\ hc.outcome = "send_err"
    /\ hc.msg = "WM_KEYDOWN"
    /\ hc.code = 0
    /\ hc.calls_next = 1
    /\ channel.connected
    /\ Len(channel.queue) = ChannelCap

\* C32, as stated: every invocation of keyboard_proc, whatever the event
\* and whichever mutexes of keyboard.rs are poisoned, reaches CallNextHookEx
\* without a panic.
C32_AlwaysCallsNextHook ==
    kb.event # "none" => (kb.next_hook = 1 /\ ~kb.panicked)

\* C33: the overlay is updated on transitions only.  At a key-down,
\* update_overlay_from_state is called exactly when the key is processed and
\* the HMM's most likely state after it differs from LAST_STATE; the call
\* carries that state and LAST_STATE becomes it; otherwise LAST_STATE stays.
\* No two consecutive calls carry the same state.
C33_OverlayOnTransitions ==
    [][ /\ kb'.keys # kb.keys =>
             /\ Len(ov'.calls) \in {Len(ov.calls), Len(ov.calls) + 1}
             /\ Len(ov'.calls) = Len(ov.calls) + 1
                   <=> (kb'.processed /\ LAST_STATE # Some(kb'.hmm_state))
             /\ IF Len(ov'.calls) = Len(ov.calls) + 1
                THEN /\ ov'.calls = Append(ov.calls, kb'.hmm_state)
                     /\ LAST_STATE' = Some(kb'.hmm_state)
                ELSE /\ ov'.calls = ov.calls
                     /\ LAST_STATE' = LAST_STATE
        /\ \A i \in 1..(Len(ov'.calls) - 1) : ov'.calls[i] # ov'.calls[i + 1]
        /\ ov'.calls # << >> => LAST_STATE' = Some(ov'.calls[Len(ov'.calls)])
      ]_vars

\* The overlay has been updated twice, for two different states, and a
\* processed key whose state equals LAST_STATE has made no call since.
C33_Witness ==
    /\ Len(ov.calls) = 2
    /\ ov.calls[1] # ov.calls[2]
    /\ kb.processed
    /\ kb.keys = MaxKeys
    /\ LAST_STATE = Some(kb.hmm_state)
    /\ kb.hmm_state = ov.calls[2]

\* C40, as stated: whenever LAST_STATE holds Some(s), the appearance most
\* recently applied to the overlay window is the one for s.
C40_OverlayInSync ==
    LAST_STATE # None => overlay = Some(appearance(LAST_STATE[1]))

\* C34, as stated: while the pause flag is true and set_paused has
\* returned, no update call writes the belief, the EWMA or the streak, an
\* update that was already in progress included.
C34_PauseGateHolds ==
    [][ (is_paused /\ pc["ime"] = Idle /\ pc["hook"] # Idle) =>
           /\ current_state_probs' = current_state_probs
           /\ s_stuck_ewma' = s_stuck_ewma
           /\ backspace_streak' = backspace_streak
      ]_vars

\* C35, as stated, for the first update and the first force_flow_state of
\* a fresh engine: once both have returned, with no other call made and no
\* mutex poisoned, the engine is in the state that running the two calls one
\* after the other, in one order or the other, leaves.
C35_ForceFlowAtomic ==
    (/\ pc["hook"] = Idle /\ pc["ime"] = Idle
     /\ calls["hook"] = 1 /\ calls["ime"] = 1 /\ calls["ui"] = 0
     /\ kl = None
     /\ poisoned = {})
       => LET fresh == <<initial_probs, 0, 0, FALSE>>
          IN  EngineState \in
                 { seq_force_flow_state(
                       seq_update(fresh, wl.features, wl.vk_code)),
                   seq_update(seq_force_flow_state(fresh),
                              wl.features, wl.vk_code) }

\* C36: no engine operation acquires a mutex while it holds another, so a
\* thread waiting for a mutex waits for a holder that can go on, no
\* interleaving deadlocks, and under fair scheduling every call returns.
C36_NoNestedLocksNoDeadlock ==
    /\ [](\A t \in Threads :
            /\ Cardinality({m \in Mutexes : lock[m] = t}) <= 1
            /\ pc[t][1] = "lock" => \A m \in Mutexes : lock[m] # t
            /\ pc[t][1] = "held" => lock[pc[t][2]] = t
            /\ (pc[t][1] = "lock" /\ lock[pc[t][2]] # "free") =>
                  pc[lock[pc[t][2]]] = <<"held", pc[t][2]>>
            /\ pc[t] # Panicked)
    /\ \A t \in Threads : (pc[t] # Idle) ~> (pc[t] = Idle)

\* update waits for the belief mutex while force_flow_state holds it, and
\* get_current_state waits for it too.
C36_Witness ==
    /\ pc["hook"] = <<"lock", "probs">>
    /\ pc["ime"] = <<"held", "probs">>
    /\ pc["ui"] = <<"lock", "probs">>
    /\ lock["probs"] = "ime"

\* C37: with the fixed tables the stored belief is never all-zero and gives
\* sum_prob > 0 for every observation symbol 0..10, so no update that is not
\* skipped is degenerate; an all-zero belief would stay all-zero under every
\* update, whatever the symbol, and force_flow_state would replace it by the
\* flow baseline.
C37_DegenerateUnreachable ==
    LET zero == <<0, 0, 0>>
        symbols == 0..(n_obs - 1)
    IN  /\ current_state_probs # zero
        /\ ~last.degenerate
        /\ \A obs \in symbols : sum_prob(current_state_probs, obs) > 0
        /\ \A obs \in symbols : forward_step(zero, obs) = zero
        /\ seq_force_flow_state(
               <<zero, s_stuck_ewma, backspace_streak, is_paused>>)[1]
             = flow_probs
        /\ flow_probs # zero

\* An update with symbol 10, which Flow never emits, has left Flow at
\* probability 0.
C37_Witness ==
    /\ Applied
    /\ last.obs = Some(10)
    /\ current_state_probs[1] = 0
    /\ current_state_probs # <<0, 0, 0>>

\* C38, as stated: when is_candidate_window_open returns, a true stored by
\* a SHOW or CHANGE event that arrived between its load of IME_ACTIVE and
\* its return is still in IME_ACTIVE, and a call that returns false leaves
\* IME_ACTIVE false.
C38_ConcurrentEventKept ==
    [][ (ime.pc = "loaded" /\ ime'.pc = "idle") =>
           /\ (ime.op = "win_event_callback"
               /\ event_store(ime.event) = Some(TRUE)) => IME_ACTIVE'
           /\ ~ime'.ret => ~IME_ACTIVE'
      ]_vars

\* hmm.rs:91-95: the index of a state in state_probs, from 1.
StateIndex(state) ==
    IF state = "Flow" THEN 1 ELSE IF state = "Incubation" THEN 2 ELSE 3

\* C39, as stated: the state most_likely_state returns has a probability
\* greater than or equal to that of both other states, and it is the state
\* SimpleHMM's arg-max selects, ties included.
C39_SameAsSimpleHMM ==
    kb.op = "most_likely_state" =>
       /\ \A j \in 1..3 : state_probs[StateIndex(kb.hmm_state)] >= state_probs[j]
       /\ kb.hmm_state = SimpleHMM_argmax(state_probs)

\* C39, amended: the state returned has a probability greater than or equal
\* to that of both other states; it is the state SimpleHMM's arg-max selects
\* exactly when no state of lower index ties with it for the maximum; among
\* tied maxima it is the last one (Stuck over Incubation over Flow), where
\* SimpleHMM selects the first.
C39_LastMaximum ==
    kb.op = "most_likely_state" =>
       LET idx == StateIndex(kb.hmm_state)
           maxima == {j \in 1..3 : \A k \in 1..3 : state_probs[j] >= state_probs[k]}
           simple == StateIndex(SimpleHMM_argmax(state_probs))
       IN  /\ idx \in maxima
           /\ \A j \in maxima : j <= idx
           /\ simple \in maxima
           /\ \A j \in maxima : simple <= j
           /\ (kb.hmm_state = SimpleHMM_argmax(state_probs))
                 <=> Cardinality(maxima) = 1

\* most_likely_state on the fallback vector returns Stuck, where SimpleHMM's
\* rule gives Flow.
C39_Witness ==
    /\ kb.op = "most_likely_state"
    /\ state_probs = fallback_probs
    /\ kb.hmm_state = "Stuck"
    /\ SimpleHMM_argmax(state_probs) = "Flow"

\* C17: pausing freezes and does not reset.  From set_paused(true) on,
\* through any updates and the later set_paused(false), until the first
\* non-skipped update or a forced reset, belief, EWMA and streak keep the
\* values they had when the pause began; set_paused stores its argument,
\* nothing else changes the flag, and get_paused returns the flag.
C17_PauseFreezes ==
    [][/\ frozen' # None => BeliefScoreStreak' = frozen'[1]
       /\ last'.op = "set_paused" => is_paused' = last'.arg[1]
       /\ is_paused' # is_paused => last'.op = "set_paused"
       /\ last'.op = "get_paused" => last'.ret = Some(is_paused)]_vars

\* The engine has just been resumed after a pause during which backspaces
\* were delivered and skipped; its streak and score are those from before.
C17_Witness ==
    /\ last.op = "set_paused" /\ last.arg = Some(FALSE) /\ ~is_paused
    /\ frozen # None
    /\ frozen[1] = BeliefScoreStreak
    /\ backspace_streak >= 2 /\ s_stuck_ewma > 0
    /\ delivered_run > applied_run

\* C18: the EWMA starts at 0; every non-skipped update stores
\* 0.3 * raw + 0.7 * ewma (rounded to the nearest unit) for the raw score of
\* its features; force_flow_state stores 0; no other call changes it.
C18_EwmaRecurrence ==
    [][/\ last.op = "new" => s_stuck_ewma = 0
       /\ AppliedNext
            => /\ last'.raw \in {calculate_s_stuck(f) : f \in FeatureSet}
               /\ s_stuck_ewma' = (2 * (3 * last'.raw + 7 * s_stuck_ewma) + 10) \div 20
       /\ last'.op = "force_flow_state" => s_stuck_ewma' = 0
       /\ (~AppliedNext /\ last'.op # "force_flow_state")
            => s_stuck_ewma' = s_stuck_ewma]_vars

\* A non-skipped update, not the first after a reset, has blended a raw
\* score into a non-zero EWMA.
C18_Witness ==
    /\ Applied /\ ~last.from_baseline
    /\ s_stuck_ewma >= 10
    /\ last.raw > s_stuck_ewma

C20_Unnormalized(prior, obs, j) ==
    emissions[(j - 1) * 11 + obs + 1]
        * (prior[1] * transitions[j] + prior[2] * transitions[3 + j]
           + prior[3] * transitions[6 + j])

C20_Posterior(prior, obs) ==
    LET total == C20_Unnormalized(prior, obs, 1) + C20_Unnormalized(prior, obs, 2)
                 + C20_Unnormalized(prior, obs, 3)
    IN  [j \in 1..3 |-> (2 * C20_Unnormalized(prior, obs, j) * Scale + total)
                            \div (2 * total)]

\* C20: a non-skipped update with non-zero posterior mass stores, for each
\* state j, emission[j][obs] * sum_i prior[i] * transition[i][j] divided by
\* the sum of these terms over j; and the forward step agrees with that
\* formula for every observation symbol 0..10 at every reachable prior
\* (evaluated on the query step of every state in which new,
\* force_flow_state or a non-skipped update has just stored the belief).
C20_ForwardStep ==
    [][/\ (AppliedNext /\ ~last'.degenerate)
            => current_state_probs'
                  = C20_Posterior(current_state_probs, last'.obs[1])
       /\ (/\ last'.op = "get_current_state"
           /\ last.op \in {"new", "force_flow_state", "update"}
           /\ ~last.skipped)
            => \A obs \in 0..10 :
                  sum_prob(current_state_probs, obs) > 0
                     => forward_step(current_state_probs, obs)
                           = C20_Posterior(current_state_probs, obs)]_vars

\* A non-skipped update with observation 10 has moved most of the mass of a
\* mixed prior to Stuck.
C20_Witness ==
    /\ Applied /\ ~last.degenerate
    /\ last.obs = Some(10)
    /\ current_state_probs[3] > current_state_probs[1] + current_state_probs[2]
    /\ current_state_probs[2] > 0
====
